---- MODULE Spec2Model ----
(***************************************************************************)
(* Verification model of the MinMsgr encryption core: the RC6 block        *)
(* cipher, the padding schemes, the modes of operation and the             *)
(* Diffie-Hellman key agreement.                                           *)
(*                                                                         *)
(* A byte is a number 0..255 and a buffer is a sequence of bytes.  A       *)
(* uint32 is kept as <<hi, lo>>, two 16-bit halves, so that every          *)
(* intermediate value of the 32-bit arithmetic stays below 2^31.           *)
(***************************************************************************)
EXTENDS Integers, Sequences, FiniteSets, TLC

VARIABLES
    rc6Key,      \* key handed to NewRC6
    rc6CallKey,  \* key handed to Encrypt and Decrypt
    rc6S,        \* RC6.s: the round-key table (44 words), <<>> before construction
    rc6Err,      \* error returned by the last RC6 call ("" when none)
    rc6In,       \* block handed to the first block operation
    rc6Mid,      \* result of the first block operation
    rc6Out,      \* result of the second block operation
    rc6Dir,      \* "ED": Encrypt then Decrypt, "DE": Decrypt then Encrypt
    rc6Pc        \* "new", "first", "second", "done", "failed"

rc6Vars == <<rc6Key, rc6CallKey, rc6S, rc6Err, rc6In, rc6Mid, rc6Out, rc6Dir, rc6Pc>>

VARIABLES
    padName,     \* padding scheme selected by name
    padData,     \* caller's data
    padBS,       \* block size handed to Pad
    padPadded,   \* buffer handed to Unpad
    padRes,      \* result of Unpad: [err, out]
    padPc        \* "start", "padded", "done" (Unpad of Pad's result), "raw" (Unpad of the data itself)

padVars == <<padName, padData, padBS, padPadded, padRes, padPc>>

VARIABLES
    dhP,         \* prime modulus shared by both DiffieHellman instances
    dhG,         \* generator shared by both instances
    dhA,         \* party -> private key a (NilInt before GeneratePrivateKey)
    dhPub,       \* party -> publicKey (NilInt before GeneratePrivateKey)
    dhSecret     \* party -> its ComputeSharedSecret call: [called, err, out] and the
                 \* private key (own) and the other's publicKey (peer) it was made with

dhVars == <<dhP, dhG, dhA, dhPub, dhSecret>>

VARIABLES
    mCipher,     \* the constructed cipher instance: [name, sched]
    mKey,        \* key handed to the constructor and to every mode call
    mMode,       \* mode selected by name
    mPad,        \* padding selected by name, "NONE" when the caller does not pad
    mIV,         \* IV handed to Encrypt and to Decrypt
    mMsg,        \* caller's message
    mPlain,      \* buffer handed to Encrypt
    mEnc,        \* result of mode.Encrypt: [err, out]
    mDec,        \* result of mode.Decrypt: [err, out]
    mUnp,        \* result of padder.Unpad: [err, out]
    mPc          \* "start", "padded", "encrypted", "decrypted", "done", "failed",
                 \* "received": Decrypt was called on a buffer no Encrypt produced

modeVars == <<mCipher, mKey, mMode, mPad, mIV, mMsg, mPlain, mEnc, mDec, mUnp, mPc>>

VARIABLES
    cmpKey,      \* key of the RC6 instance and of both Encrypt calls
    cmpS,        \* the instance's round-key table
    cmpIV,       \* IV handed to CBC (ECB is handed nil)
    cmpPlain,    \* block-aligned plaintext handed to both modes
    cmpECB,      \* result of ECBMode.Encrypt: [err, out, calls]
    cmpCBC,      \* result of CBCMode.Encrypt: [err, out, calls]
    cmpPc        \* "start", "ecb", "both"

cmpVars == <<cmpKey, cmpS, cmpIV, cmpPlain, cmpECB, cmpCBC, cmpPc>>

\* name lookup: the requested algorithm, mode and padding names, the lookup
\* path taken and what it returned
VARIABLES
    lkAlg, lkMode, lkPadding, lkRes, lkPc

lkVars == <<lkAlg, lkMode, lkPadding, lkRes, lkPc>>

\* global DH parameters: the dh_globals table and, for each concurrent
\* caller of GetGlobalDHParams, its position, its DiffieHellman instance,
\* its last result and the number of calls it has finished
VARIABLES
    dhGlobals,   \* rows of dh_globals in id order: [id, p, g]
    ggPc,        \* caller -> "idle", "generate" (no row was found) or "save"
    ggDH,        \* caller -> the instance from NewDiffieHellman, or NoParams
    ggRet,       \* caller -> the (p, g) its last finished call returned, or NoParams
    ggFirst,     \* caller -> TRUE when a call of it found no row
    ggCalls,     \* caller -> number of finished calls
    ggReturned   \* every (p, g) returned so far

ggVars == <<dhGlobals, ggPc, ggDH, ggRet, ggFirst, ggCalls, ggReturned>>

\* DH exchange for one chat between users 1 and 2: the chats, dh_parameters
\* and dh_public_keys rows of the chat, the users' account keys, the position
\* of a running CreateChat, and what each participant's last calls returned
VARIABLES
    chatStatus,      \* "none" (no chats row), "active" or "closed"
    chatParams,      \* the (p, g) pair of the chat's dh_parameters row, 0 without a row
    dhPublicKeys,    \* user -> public_key of its dh_public_keys row, NilBytes without a row
    userPublicKey,   \* user -> users.public_key, NilBytes when NULL
    ccPc,            \* position of CreateChat
    ccCreated,       \* TRUE once a CreateChat has run to its end
    lastInit,        \* the last InitiateDHExchange: its caller, its result and what held at the call
    lastComplete,    \* the last CompleteDHExchange: its caller, its argument and its error
    completed,       \* user -> the value of its last successful complete, or NilBytes
    hasInitiated     \* user -> TRUE once an initiate of the user has succeeded

xVars == <<chatStatus, chatParams, dhPublicKeys, userPublicKey, ccPc, ccCreated,
           lastInit, lastComplete, completed, hasInitiated>>

\* two callers of a Padder that were handed the same slice: the backing
\* array behind it, and what each caller asked for and got
VARIABLES
    alBuf,       \* the backing array of the shared slice, spare capacity included
    alBuf0,      \* that array as it was before any call
    alLen,       \* len(data) of the shared slice; cap(data) is Len(alBuf)
    alOp,        \* caller -> "Pad" or "Unpad"
    alName,      \* caller -> padding scheme
    alBS,        \* caller -> blockSize
    alRes,       \* caller -> the slice its call returned: [called, err, shared, len, fresh]
    alFirst      \* caller -> the bytes of that slice when the call returned

alVars == <<alBuf, alBuf0, alLen, alOp, alName, alBS, alRes, alFirst>>

\* one call of NewDiffieHellman followed step by step through the loop of
\* generateSafePrime
VARIABLES
    pgBits,      \* primeBits of the call
    pgPc,        \* "call", "loop" (inside generateSafePrime), "returned" or "failed"
    pgCand,      \* the last candidate rand.Prime delivered, 0 before the first
    pgTries,     \* candidates rejected so far, counted up to MaxTries
    pgRet        \* what the call returned: [p, g, err]

pgVars == <<pgBits, pgPc, pgCand, pgTries, pgRet>>

\* NewDiffieHellman for a precomputed size, and the measuring of the prime
\* it returned
VARIABLES
    spBits,      \* primeBits of the call
    spPc,        \* "call", "measure" (p.BitLen() in progress) or "done"
    spP,         \* dh.p in decimal digits, <<>> before the call
    spG,         \* dh.g
    spFactor,    \* smallest divisor of p that trial division finds, 0 when none
    spN,         \* what is left of p while its bits are counted
    spLen        \* bits of p counted so far

spVars == <<spBits, spPc, spP, spG, spFactor, spN, spLen>>

\* messaging on the chat of users 1 and 2 (chat id 1; no chat has id 2):
\* the chats and messages rows and the last request served
VARIABLES
    chCreator,   \* the user whose CreateChat made chat 1 (not stored by the code)
    chStatus,    \* chats.status of chat 1
    chMessages,  \* messages rows of chat 1 in id order: [sender, ciphertext]
    chLast       \* the last request: who, what, the response, the events sent and
                 \* the rows and status before it

chVars == <<chCreator, chStatus, chMessages, chLast>>

\* the gateway's hub: the broadcast queue, the registered clients and their
\* send channels, and the goroutines around them
VARIABLES
    hubQueue,     \* s.broadcast: the buffered events, oldest first
    hubClients,   \* the keys of s.clients
    hubSend,      \* per client, the buffer of its send channel
    hubClosed,    \* per client, how many times close(client.send) ran
    hubPc,        \* per client, where its connection handler and readPump are
    hubWp,        \* per client, whether its writePump runs
    hubEvict,     \* per client, the eviction goroutines blocked on s.unregister
    hubNext,      \* the number of events passed to Broadcast so far
    hubWaiting,   \* the events whose Broadcast call is blocked on the full queue
    hubDropped,   \* the ids of the events whose Broadcast call timed out
    hubProcessed, \* the ids of the events runHub took from the queue
    hubPanic      \* whether a send on a closed send channel happened

hubVars == <<hubQueue, hubClients, hubSend, hubClosed, hubPc, hubWp, hubEvict, hubNext,
             hubWaiting, hubDropped, hubProcessed, hubPanic>>

\* the contacts table for users 1 and 2 and the contact requests in progress
VARIABLES
    ctRow,      \* the contacts row of the pair (1, 2), or NoContact
    ctNextId,   \* the next value of the id sequence
    ctPc,       \* per user, the request being served: idle, or the action and
                \* the row that GetContact returned to it
    ctLast,     \* per user, the response to the last request
    ctAccept    \* how the row became accepted: who issued the accept and the
                \* status the accept saw

ctVars == <<ctRow, ctNextId, ctPc, ctLast, ctAccept>>

\* the client's WebSocket service: the module variables ws and
\* reconnectAttempts, the sockets it has created and its reconnect timers
VARIABLES
    ws,                 \* the socket the variable ws refers to: "null", or the
                        \* readyState of that socket, "connecting" or "open"
    wsOthers,           \* the live sockets ws does not refer to, by readyState
    wsClosing,          \* sockets closed by disconnect() whose close event is due
    wsTimers,           \* pending setTimeout callbacks that will call connect
    reconnectAttempts,
    wsCreated,          \* sockets created so far
    wsSinceOpen,        \* reconnects scheduled since the last onopen
    wsLastDelay,        \* the delay of the last reconnect scheduled, in ms
    wsDisconnected,     \* disconnect() was called and connect() was not called
                        \* by the application since
    wsReopened          \* a socket was created while wsDisconnected

wsVars == <<ws, wsOthers, wsClosing, wsTimers, reconnectAttempts, wsCreated, wsSinceOpen,
            wsLastDelay, wsDisconnected, wsReopened>>

vars == <<rc6Vars, padVars, dhVars, modeVars, cmpVars, lkVars, ggVars, xVars, alVars, pgVars, spVars, chVars, hubVars, ctVars, wsVars>>

(***************************************************************************)
(* Bytes and 32-bit words                                                  *)
(***************************************************************************)
Pow2(n) == 2 ^ n

\* bit i of a
Bit(a, i) == (a \div (2 ^ i)) % 2

\* a ^ b on four bits
XorBits4(a, b) ==
    ((Bit(a, 0) + Bit(b, 0)) % 2)
    + (2 * ((Bit(a, 1) + Bit(b, 1)) % 2))
    + (4 * ((Bit(a, 2) + Bit(b, 2)) % 2))
    + (8 * ((Bit(a, 3) + Bit(b, 3)) % 2))

\* a | b on four bits
OrBits4(a, b) ==
    (IF Bit(a, 0) + Bit(b, 0) > 0 THEN 1 ELSE 0)
    + (IF Bit(a, 1) + Bit(b, 1) > 0 THEN 2 ELSE 0)
    + (IF Bit(a, 2) + Bit(b, 2) > 0 THEN 4 ELSE 0)
    + (IF Bit(a, 3) + Bit(b, 3) > 0 THEN 8 ELSE 0)

\* the two operators as tables over the four-bit values
XorNibble == [a \in 0..15 |-> [b \in 0..15 |-> XorBits4(a, b)]]

OrNibble == [a \in 0..15 |-> [b \in 0..15 |-> OrBits4(a, b)]]

\* a ^ b on bytes
XorByte(a, b) == XorNibble[a % 16][b % 16] + (16 * XorNibble[a \div 16][b \div 16])

\* a ^ b on 16 bits
Xor16(a, b) == XorByte(a % 256, b % 256) + (256 * XorByte(a \div 256, b \div 256))

\* a | b on 16 bits
Or16(a, b) ==
    OrNibble[a % 16][b % 16]
    + (16 * OrNibble[(a \div 16) % 16][(b \div 16) % 16])
    + (256 * OrNibble[(a \div 256) % 16][(b \div 256) % 16])
    + (4096 * OrNibble[a \div 4096][b \div 4096])

\* x ^ y on uint32
Xor32(x, y) == <<Xor16(x[1], y[1]), Xor16(x[2], y[2])>>

\* x | y on uint32
Or32(x, y) == <<Or16(x[1], y[1]), Or16(x[2], y[2])>>

\* x + y on uint32 (wraps modulo 2^32)
Add32(x, y) ==
    LET lo == x[2] + y[2]
    IN  <<(x[1] + y[1] + (lo \div 65536)) % 65536, lo % 65536>>

\* x - y on uint32 (wraps modulo 2^32)
Sub32(x, y) ==
    LET lo == x[2] - y[2]
        borrow == IF lo < 0 THEN 1 ELSE 0
    IN  <<(x[1] - y[1] - borrow + 131072) % 65536, (lo + 65536) % 65536>>

\* (a * b) mod 2^16 for 16-bit a, b, by bytes of a
MulLow16(a, b) == (((a % 256) * b) + ((((a \div 256) * b) % 256) * 256)) % 65536

\* (a * b) div 2^16 for 16-bit a, b
MulHigh16(a, b) ==
    LET p0 == (a % 256) * b
        p1 == (a \div 256) * b
    IN  ((p0 + ((p1 % 256) * 256)) \div 65536) + (p1 \div 256)

\* x * y on uint32 (wraps modulo 2^32)
Mul32(x, y) ==
    <<(MulHigh16(x[2], y[2]) + MulLow16(x[2], y[1]) + MulLow16(x[1], y[2])) % 65536,
      MulLow16(x[2], y[2])>>

\* x << n on uint32; Go yields 0 when n >= 32
Shl32(x, n) ==
    IF n >= 32 THEN <<0, 0>>
    ELSE IF n >= 16 THEN <<(x[2] * Pow2(n - 16)) % 65536, 0>>
    ELSE <<((x[1] * Pow2(n)) % 65536) + (x[2] \div Pow2(16 - n)),
           (x[2] * Pow2(n)) % 65536>>

\* x >> n on uint32; Go yields 0 when n >= 32
Shr32(x, n) ==
    IF n >= 32 THEN <<0, 0>>
    ELSE IF n >= 16 THEN <<0, x[1] \div Pow2(n - 16)>>
    ELSE <<x[1] \div Pow2(n),
           ((x[1] % Pow2(n)) * Pow2(16 - n)) + (x[2] \div Pow2(n))>>

rotl32(x, n) == Or32(Shl32(x, n), Shr32(x, 32 - n))

rotr32(x, n) == Or32(Shr32(x, n), Shl32(x, 32 - n))

\* binary.LittleEndian.Uint32 of the four bytes of b that start at offset off
Uint32LE(b, off) ==
    <<(b[off + 4] * 256) + b[off + 3], (b[off + 2] * 256) + b[off + 1]>>

\* binary.LittleEndian.PutUint32: the four bytes of w
PutUint32LE(w) ==
    <<w[2] % 256, w[2] \div 256, w[1] % 256, w[1] \div 256>>

(***************************************************************************)
(* RC6 (32-bit words, 20 rounds, 128-bit block)                            *)
(***************************************************************************)
RC6BlockSize == 16

RC6Rounds == 20

RC6TableLen == 44

RC6MinKey == 16

RC6MaxKey == 32

P32 == <<47073, 20835>>   \* 0xB7E15163

Q32 == <<40503, 31161>>   \* 0x9E3779B9

One32 == <<0, 1>>

\* x*(2*x+1) on uint32
QuadForm(x) == Mul32(x, Add32(Add32(x, x), One32))

\* key bytes gathered little-endian into c = (len(key)+3)/4 words, zero-padded
KeyWords(key) ==
    LET c == (Len(key) + 3) \div 4
        kb(i) == IF i <= Len(key) THEN key[i] ELSE 0
    IN  [j \in 1..c |->
            <<(kb(4 * j) * 256) + kb(4 * j - 1), (kb(4 * j - 2) * 256) + kb(4 * j - 3)>>]

RECURSIVE InitTable(_, _)
\* s[0] = P32, s[i] = s[i-1] + Q32: the table S extended to n words.  A
\* range of more than one pass is run as its two halves.
InitTable(S, n) ==
    IF Len(S) >= n THEN S
    ELSE IF Len(S) + 1 = n
         THEN Append(S, IF S = <<>> THEN P32 ELSE Add32(S[Len(S)], Q32))
         ELSE InitTable(InitTable(S, (Len(S) + n) \div 2), n)

\* one pass of the key-dependent loop of expandKey on the loop state m:
\* S and L the two tables, a and b the running words, i, j, k the Go indices.
\* stmts lists the values the body computes, in statement order.
KeyMixStep(m) ==
    LET sa == Add32(m.S[m.i + 1], m.a)
        sab == Add32(sa, m.b)
        a2 == rotl32(sab, 3)
        ab == Add32(a2, m.b)
        lab == Add32(m.L[m.j + 1], ab)
        b2 == rotl32(lab, ab[2] % 32)
        stmts == <<sa, sab, a2, ab, lab, b2>>
    IN  [a |-> stmts[3],
         b |-> stmts[6],
         S |-> [m.S EXCEPT ![m.i + 1] = a2],
         L |-> [m.L EXCEPT ![m.j + 1] = b2],
         i |-> (m.i + 1) % RC6TableLen,
         j |-> (m.j + 1) % Len(m.L),
         k |-> m.k + 1]

RECURSIVE KeyMix(_, _)
\* for ; k < limit; k++ from the loop state m.  A range of more than one
\* pass is run as its two halves.
KeyMix(m, limit) ==
    IF m.k >= limit THEN m
    ELSE IF m.k + 1 = limit THEN KeyMixStep(m)
         ELSE KeyMix(KeyMix(m, (m.k + limit) \div 2), limit)

\* RC6.expandKey: the round-key table for key
expandKey(key) ==
    KeyMix([S |-> InitTable(<<>>, RC6TableLen), L |-> KeyWords(key),
            a |-> <<0, 0>>, b |-> <<0, 0>>, i |-> 0, j |-> 0, k |-> 0],
           3 * RC6TableLen).S

\* one pass of the encryption loop body on the loop state m: the words
\* a, b, c, d and the round index i.  mix(v) is the body from the locals
\* v, the state with t and u computed: a and c are updated, then
\* (a, b, c, d) = (b, c, d, a).
EncryptRound(S, m) ==
    LET mix(v) ==
            [a |-> v.b,
             b |-> Add32(rotl32(Xor32(v.c, v.u), v.t[2] % 32), S[2 * v.i + 2]),
             c |-> v.d,
             d |-> Add32(rotl32(Xor32(v.a, v.t), v.u[2] % 32), S[2 * v.i + 1]),
             i |-> v.i + 1]
    IN  mix([a |-> m.a, b |-> m.b, c |-> m.c, d |-> m.d, i |-> m.i,
             t |-> rotl32(QuadForm(m.b), 5), u |-> rotl32(QuadForm(m.d), 5)])

\* the same round with the two data-dependent rotation amounts exchanged
DecryptRoundSwapped(S, m) ==
    LET unmix(v) ==
            [b |-> v.b,
             d |-> v.d,
             c |-> Xor32(rotr32(Sub32(v.c, S[2 * v.i + 2]), v.u[2] % 32), v.u),
             a |-> Xor32(rotr32(Sub32(v.a, S[2 * v.i + 1]), v.t[2] % 32), v.t),
             i |-> v.i - 1]
    IN  unmix([a |-> m.d, b |-> m.a, c |-> m.b, d |-> m.c, i |-> m.i,
               u |-> rotl32(QuadForm(m.c), 5), t |-> rotl32(QuadForm(m.a), 5)])

\* one pass of the decryption loop body on the loop state m: unmix(v) is
\* the body from the locals v, the state after (a, b, c, d) = (d, a, b, c)
\* with u and t computed from the new d and b
DecryptRound(S, m) ==
    LET unmix(v) ==
            [b |-> v.b,
             d |-> v.d,
             c |-> Xor32(rotr32(Sub32(v.c, S[2 * v.i + 2]), v.t[2] % 32), v.u),
             a |-> Xor32(rotr32(Sub32(v.a, S[2 * v.i + 1]), v.u[2] % 32), v.t),
             i |-> v.i - 1]
    IN  unmix([a |-> m.d, b |-> m.a, c |-> m.b, d |-> m.c, i |-> m.i,
               u |-> rotl32(QuadForm(m.c), 5), t |-> rotl32(QuadForm(m.a), 5)])

RECURSIVE EncryptLoop(_, _)
\* for i := 1; i <= r; i++
EncryptLoop(S, m) ==
    IF m.i > RC6Rounds THEN m ELSE EncryptLoop(S, EncryptRound(S, m))

RECURSIVE DecryptLoop(_, _)
\* for i := r; i >= 1; i--
DecryptLoop(S, m) ==
    IF m.i < 1 THEN m ELSE DecryptLoop(S, DecryptRound(S, m))

\* RC6.Encrypt on an instance with table S: [err, out]
RC6Encrypt(S, key, plaintext) ==
    IF Len(plaintext) # RC6BlockSize
    THEN [err |-> "plaintext must be 16 bytes", out |-> <<>>]
    ELSE LET final(m) ==
                 [err |-> "",
                  out |-> PutUint32LE(Add32(m.a, S[2 * RC6Rounds + 3]))
                          \o PutUint32LE(m.b)
                          \o PutUint32LE(Add32(m.c, S[2 * RC6Rounds + 4]))
                          \o PutUint32LE(m.d)]
         IN  final(EncryptLoop(S, [a |-> Uint32LE(plaintext, 0),
                                   b |-> Add32(Uint32LE(plaintext, 4), S[1]),
                                   c |-> Uint32LE(plaintext, 8),
                                   d |-> Add32(Uint32LE(plaintext, 12), S[2]),
                                   i |-> 1]))

\* RC6.Decrypt on an instance with table S: [err, out]
RC6Decrypt(S, key, ciphertext) ==
    IF Len(ciphertext) # RC6BlockSize
    THEN [err |-> "ciphertext must be 16 bytes", out |-> <<>>]
    ELSE LET final(m) ==
                 [err |-> "",
                  out |-> PutUint32LE(m.a)
                          \o PutUint32LE(Sub32(m.b, S[1]))
                          \o PutUint32LE(m.c)
                          \o PutUint32LE(Sub32(m.d, S[2]))]
         IN  final(DecryptLoop(S, [a |-> Sub32(Uint32LE(ciphertext, 0), S[2 * RC6Rounds + 3]),
                                   b |-> Uint32LE(ciphertext, 4),
                                   c |-> Sub32(Uint32LE(ciphertext, 8), S[2 * RC6Rounds + 4]),
                                   d |-> Uint32LE(ciphertext, 12),
                                   i |-> RC6Rounds]))

(***************************************************************************)
(* LOKI97: the 64-bit-block, 128-bit-key Feistel cipher behind NewLOKI97   *)
(***************************************************************************)
LOKI97BlockSize == 8

LOKI97KeySize == 16

LOKI97Rounds == 16

\* the S-box substitution of one byte
LOKI97Sbox(x) == ((x * x * x) + 42) % 256

\* the round function: key addition, S-box on each byte, bit rotation
LOKI97F(r, k) ==
    LET sbox(b) == Uint32LE([j \in 1..4 |-> LOKI97Sbox(b[j])], 0)
    IN  rotl32(sbox(PutUint32LE(Add32(r, k))), 7)

\* the round keys derived from the four words of the key
LOKI97Schedule(key) ==
    [i \in 1..LOKI97Rounds |->
        rotl32(Add32(Uint32LE(key, 4 * (i % 4)), <<i, i * 257>>), i)]

\* round m.i on the halves l, r with round key order[m.i]:
\* (l, r) <- (r, l ^ F(r, K))
LOKI97Round(roundKeys, order, m) ==
    [l |-> m.r, r |-> Xor32(m.l, LOKI97F(m.r, roundKeys[order[m.i]])), i |-> m.i + 1]

RECURSIVE LOKI97Loop(_, _, _)
\* the rounds from m.i to the last
LOKI97Loop(roundKeys, order, m) ==
    IF m.i > LOKI97Rounds THEN m
    ELSE LOKI97Loop(roundKeys, order, LOKI97Round(roundKeys, order, m))

\* one block through the network with the round keys in the given order
LOKI97Block(roundKeys, order, block) ==
    IF Len(block) # LOKI97BlockSize
    THEN [err |-> "block must be 8 bytes", out |-> <<>>]
    ELSE LET final(m) == [err |-> "", out |-> PutUint32LE(m.r) \o PutUint32LE(m.l)]
         IN  final(LOKI97Loop(roundKeys, order,
                              [l |-> Uint32LE(block, 0), r |-> Uint32LE(block, 4), i |-> 1]))

LOKI97Encrypt(roundKeys, key, plaintext) ==
    LOKI97Block(roundKeys, [i \in 1..LOKI97Rounds |-> i], plaintext)

LOKI97Decrypt(roundKeys, key, ciphertext) ==
    LOKI97Block(roundKeys, [i \in 1..LOKI97Rounds |-> LOKI97Rounds + 1 - i], ciphertext)

(***************************************************************************)
(* The SymmetricCipher interface: a cipher instance is [name, sched]       *)
(***************************************************************************)
\* NewRC6 / NewLOKI97: [err, cipher]
NewCipher(name, key) ==
    IF name = "RC6"
    THEN IF Len(key) < RC6MinKey \/ Len(key) > RC6MaxKey
         THEN [err |-> "RC6 key must be between 16 and 32 bytes",
               cipher |-> [name |-> name, sched |-> <<>>]]
         ELSE [err |-> "", cipher |-> [name |-> name, sched |-> expandKey(key)]]
    ELSE IF Len(key) # LOKI97KeySize
         THEN [err |-> "LOKI97 key must be 16 bytes",
               cipher |-> [name |-> name, sched |-> <<>>]]
         ELSE [err |-> "", cipher |-> [name |-> name, sched |-> LOKI97Schedule(key)]]

BlockSize(cipher) == IF cipher.name = "RC6" THEN RC6BlockSize ELSE LOKI97BlockSize

CipherEncrypt(cipher, key, block) ==
    IF cipher.name = "RC6" THEN RC6Encrypt(cipher.sched, key, block)
    ELSE LOKI97Encrypt(cipher.sched, key, block)

CipherDecrypt(cipher, key, block) ==
    IF cipher.name = "RC6" THEN RC6Decrypt(cipher.sched, key, block)
    ELSE LOKI97Decrypt(cipher.sched, key, block)

(***************************************************************************)
(* Modes of operation.  Every loop threads the output so far and the       *)
(* chaining value; rest(r) is the remainder of a pass after the cipher     *)
(* call has returned r = [err, out].  A mode call returns [err, out,       *)
(* calls]: calls counts the block-cipher invocations it made.              *)
(***************************************************************************)
\* a[j] ^ b[j] for the first n bytes
XorBytes(a, b, n) == [j \in 1..n |-> XorByte(a[j], b[j])]

\* the chunk of buf at Go offset i: buf[i:min(i+blockSize, len(buf))]
Chunk(buf, i, blockSize) ==
    SubSeq(buf, i + 1, IF i + blockSize > Len(buf) THEN Len(buf) ELSE i + blockSize)

\* return nil, err before the loop: no cipher call has been made
Failed(e) == [err |-> e, out |-> <<>>, calls |-> 0]

\* the cipher calls made when a loop stands at Go offset i: every pass makes
\* one call and advances i by the block size
Calls(cipher, i) == i \div BlockSize(cipher)

\* return nil, err inside the loop, after n cipher calls
FailedCall(e, n) == [err |-> e, out |-> <<>>, calls |-> n]

RECURSIVE ECBLoop(_, _, _, _, _, _)
\* dir "E": cipher.Encrypt on each block, dir "D": cipher.Decrypt
ECBLoop(cipher, key, input, dir, out, i) ==
    IF i >= Len(input) THEN [err |-> "", out |-> out, calls |-> Calls(cipher, i)]
    ELSE LET blk == Chunk(input, i, BlockSize(cipher))
             rest(r) ==
                 IF r.err # "" THEN FailedCall(r.err, Calls(cipher, i) + 1)
                 ELSE ECBLoop(cipher, key, input, dir, out \o r.out, i + BlockSize(cipher))
         IN  rest(IF dir = "E" THEN CipherEncrypt(cipher, key, blk)
                  ELSE CipherDecrypt(cipher, key, blk))

ECBEncrypt(cipher, key, plaintext, iv) ==
    IF (Len(plaintext) % BlockSize(cipher)) # 0
    THEN Failed("plaintext length must be multiple of block size")
    ELSE ECBLoop(cipher, key, plaintext, "E", <<>>, 0)

ECBDecrypt(cipher, key, ciphertext, iv) ==
    IF (Len(ciphertext) % BlockSize(cipher)) # 0
    THEN Failed("ciphertext length must be multiple of block size")
    ELSE ECBLoop(cipher, key, ciphertext, "D", <<>>, 0)

RECURSIVE CBCEncryptLoop(_, _, _, _, _, _)
CBCEncryptLoop(cipher, key, plaintext, prevCipherBlock, out, i) ==
    IF i >= Len(plaintext) THEN [err |-> "", out |-> out, calls |-> Calls(cipher, i)]
    ELSE LET bs == BlockSize(cipher)
             block == XorBytes(Chunk(plaintext, i, bs), prevCipherBlock, bs)
             rest(r) ==
                 IF r.err # "" THEN FailedCall(r.err, Calls(cipher, i) + 1)
                 ELSE CBCEncryptLoop(cipher, key, plaintext, r.out, out \o r.out, i + bs)
         IN  rest(CipherEncrypt(cipher, key, block))

\* CBC encryption that encrypts every block as it is, without chaining
CBCEncryptNoChain(cipher, key, plaintext, iv) ==
    IF Len(iv) # BlockSize(cipher) THEN Failed("IV length must be block size")
    ELSE IF (Len(plaintext) % BlockSize(cipher)) # 0
    THEN Failed("plaintext length must be multiple of block size")
    ELSE ECBLoop(cipher, key, plaintext, "E", <<>>, 0)

CBCEncrypt(cipher, key, plaintext, iv) ==
    IF Len(iv) # BlockSize(cipher) THEN Failed("IV length must be block size")
    ELSE IF (Len(plaintext) % BlockSize(cipher)) # 0
    THEN Failed("plaintext length must be multiple of block size")
    ELSE CBCEncryptLoop(cipher, key, plaintext, iv, <<>>, 0)

RECURSIVE CBCDecryptLoopKeepIV(_, _, _, _, _, _)
\* CBC decryption that never advances the chaining value past the IV
CBCDecryptLoopKeepIV(cipher, key, ciphertext, prevCipherBlock, out, i) ==
    IF i >= Len(ciphertext) THEN [err |-> "", out |-> out, calls |-> Calls(cipher, i)]
    ELSE LET bs == BlockSize(cipher)
             rest(r) ==
                 IF r.err # "" THEN FailedCall(r.err, Calls(cipher, i) + 1)
                 ELSE CBCDecryptLoopKeepIV(cipher, key, ciphertext, prevCipherBlock,
                                           out \o XorBytes(r.out, prevCipherBlock, bs), i + bs)
         IN  rest(CipherDecrypt(cipher, key, Chunk(ciphertext, i, bs)))

RECURSIVE CBCDecryptLoop(_, _, _, _, _, _)
CBCDecryptLoop(cipher, key, ciphertext, prevCipherBlock, out, i) ==
    IF i >= Len(ciphertext) THEN [err |-> "", out |-> out, calls |-> Calls(cipher, i)]
    ELSE LET bs == BlockSize(cipher)
             rest(r) ==
                 IF r.err # "" THEN FailedCall(r.err, Calls(cipher, i) + 1)
                 ELSE CBCDecryptLoop(cipher, key, ciphertext, Chunk(ciphertext, i, bs),
                                     out \o XorBytes(r.out, prevCipherBlock, bs), i + bs)
         IN  rest(CipherDecrypt(cipher, key, Chunk(ciphertext, i, bs)))

CBCDecrypt(cipher, key, ciphertext, iv) ==
    IF Len(iv) # BlockSize(cipher) THEN Failed("IV length must be block size")
    ELSE IF (Len(ciphertext) % BlockSize(cipher)) # 0
    THEN Failed("ciphertext length must be multiple of block size")
    ELSE CBCDecryptLoop(cipher, key, ciphertext, iv, <<>>, 0)

\* PCBC encryption that chains on the ciphertext block alone
PCBCEncryptCipherChain(cipher, key, plaintext, iv) == CBCEncrypt(cipher, key, plaintext, iv)

RECURSIVE PCBCEncryptLoop(_, _, _, _, _, _)
PCBCEncryptLoop(cipher, key, plaintext, prev, out, i) ==
    IF i >= Len(plaintext) THEN [err |-> "", out |-> out, calls |-> Calls(cipher, i)]
    ELSE LET bs == BlockSize(cipher)
             pt == Chunk(plaintext, i, bs)
             rest(r) ==
                 IF r.err # "" THEN FailedCall(r.err, Calls(cipher, i) + 1)
                 ELSE PCBCEncryptLoop(cipher, key, plaintext, XorBytes(pt, r.out, bs),
                                      out \o r.out, i + bs)
         IN  rest(CipherEncrypt(cipher, key, XorBytes(pt, prev, bs)))

PCBCEncrypt(cipher, key, plaintext, iv) ==
    IF Len(iv) # BlockSize(cipher) THEN Failed("IV length must be block size")
    ELSE IF (Len(plaintext) % BlockSize(cipher)) # 0
    THEN Failed("plaintext length must be multiple of block size")
    ELSE PCBCEncryptLoop(cipher, key, plaintext, iv, <<>>, 0)

RECURSIVE PCBCDecryptLoop(_, _, _, _, _, _)
PCBCDecryptLoop(cipher, key, ciphertext, prev, out, i) ==
    IF i >= Len(ciphertext) THEN [err |-> "", out |-> out, calls |-> Calls(cipher, i)]
    ELSE LET bs == BlockSize(cipher)
             ct == Chunk(ciphertext, i, bs)
             rest(r) ==
                 LET pt == XorBytes(r.out, prev, bs)
                 IN  IF r.err # "" THEN FailedCall(r.err, Calls(cipher, i) + 1)
                     ELSE PCBCDecryptLoop(cipher, key, ciphertext, XorBytes(pt, ct, bs),
                                          out \o pt, i + bs)
         IN  rest(CipherDecrypt(cipher, key, ct))

\* PCBC decryption that enters the loop without the length check
PCBCDecryptNoLengthCheck(cipher, key, ciphertext, iv) ==
    IF Len(iv) # BlockSize(cipher) THEN Failed("IV length must be block size")
    ELSE PCBCDecryptLoop(cipher, key, ciphertext, iv, <<>>, 0)

PCBCDecrypt(cipher, key, ciphertext, iv) ==
    IF Len(iv) # BlockSize(cipher) THEN Failed("IV length must be block size")
    ELSE IF (Len(ciphertext) % BlockSize(cipher)) # 0
    THEN Failed("ciphertext length must be multiple of block size")
    ELSE PCBCDecryptLoop(cipher, key, ciphertext, iv, <<>>, 0)

\* the register shifted left by the chunk's length with the chunk appended
ShiftIn(register, chunk) == SubSeq(register, Len(chunk) + 1, Len(register)) \o chunk

RECURSIVE CFBLoop(_, _, _, _, _, _, _)
\* dir "E": the output chunk is fed back, dir "D": the input chunk is
CFBLoop(cipher, key, input, dir, register, out, i) ==
    IF i >= Len(input) THEN [err |-> "", out |-> out, calls |-> Calls(cipher, i)]
    ELSE LET bs == BlockSize(cipher)
             chunk == Chunk(input, i, bs)
             rest(r) ==
                 LET res == XorBytes(chunk, r.out, Len(chunk))
                 IN  IF r.err # "" THEN FailedCall(r.err, Calls(cipher, i) + 1)
                     ELSE CFBLoop(cipher, key, input, dir,
                                  ShiftIn(register, IF dir = "E" THEN res ELSE chunk),
                                  out \o res, i + bs)
         IN  rest(CipherEncrypt(cipher, key, register))

CFBEncrypt(cipher, key, plaintext, iv) ==
    IF Len(iv) # BlockSize(cipher) THEN Failed("IV length must be block size")
    ELSE CFBLoop(cipher, key, plaintext, "E", iv, <<>>, 0)

\* CFB decryption that feeds the recovered plaintext back into the register
CFBDecryptFeedsPlaintext(cipher, key, ciphertext, iv) ==
    IF Len(iv) # BlockSize(cipher) THEN Failed("IV length must be block size")
    ELSE CFBLoop(cipher, key, ciphertext, "E", iv, <<>>, 0)

\* CFB decryption that checks the IV only for being non-empty
CFBDecryptAnyIV(cipher, key, ciphertext, iv) ==
    IF Len(iv) = 0 THEN Failed("IV length must be block size")
    ELSE CFBLoop(cipher, key, ciphertext, "D", iv, <<>>, 0)

CFBDecrypt(cipher, key, ciphertext, iv) ==
    IF Len(iv) # BlockSize(cipher) THEN Failed("IV length must be block size")
    ELSE CFBLoop(cipher, key, ciphertext, "D", iv, <<>>, 0)

RECURSIVE OFBLoop(_, _, _, _, _, _)
OFBLoop(cipher, key, plaintext, keystream, out, i) ==
    IF i >= Len(plaintext) THEN [err |-> "", out |-> out, calls |-> Calls(cipher, i)]
    ELSE LET chunk == Chunk(plaintext, i, BlockSize(cipher))
             rest(generated) ==
                 IF generated.err # "" THEN FailedCall(generated.err, Calls(cipher, i) + 1)
                 ELSE OFBLoop(cipher, key, plaintext, generated.out,
                              out \o XorBytes(chunk, generated.out, Len(chunk)),
                              i + BlockSize(cipher))
         IN  rest(CipherEncrypt(cipher, key, keystream))

OFBEncrypt(cipher, key, plaintext, iv) ==
    IF Len(iv) # BlockSize(cipher) THEN Failed("IV length must be block size")
    ELSE OFBLoop(cipher, key, plaintext, iv, <<>>, 0)

OFBDecrypt(cipher, key, ciphertext, iv) == OFBEncrypt(cipher, key, ciphertext, iv)

\* an increment of the last byte alone, without carry
incrementCounterLastByte(counter) ==
    IF counter = <<>> THEN <<>>
    ELSE [counter EXCEPT ![Len(counter)] = (@ + 1) % 256]

RECURSIVE incrementCounter(_)
\* counter[i]++ from the last byte towards the first, stopping at the first
\* byte that does not wrap to zero
incrementCounter(counter) ==
    IF counter = <<>> THEN <<>>
    ELSE LET n == Len(counter)
             b == (counter[n] + 1) % 256
         IN  IF b # 0 THEN [counter EXCEPT ![n] = b]
             ELSE Append(incrementCounter(SubSeq(counter, 1, n - 1)), 0)

RECURSIVE CTRLoop(_, _, _, _, _, _)
CTRLoop(cipher, key, plaintext, counter, out, i) ==
    IF i >= Len(plaintext) THEN [err |-> "", out |-> out, calls |-> Calls(cipher, i)]
    ELSE LET chunk == Chunk(plaintext, i, BlockSize(cipher))
             rest(keystream) ==
                 IF keystream.err # "" THEN FailedCall(keystream.err, Calls(cipher, i) + 1)
                 ELSE CTRLoop(cipher, key, plaintext, incrementCounter(counter),
                              out \o XorBytes(chunk, keystream.out, Len(chunk)),
                              i + BlockSize(cipher))
         IN  rest(CipherEncrypt(cipher, key, counter))

CTREncrypt(cipher, key, plaintext, iv) ==
    IF Len(iv) # BlockSize(cipher) THEN Failed("IV length must be block size")
    ELSE CTRLoop(cipher, key, plaintext, iv, <<>>, 0)

CTRDecrypt(cipher, key, ciphertext, iv) == CTREncrypt(cipher, key, ciphertext, iv)

RECURSIVE RandomDeltaLoop(_, _, _, _, _, _, _)
\* deltas[n]: the block rand.Read delivers in the n-th pass of the loop
RandomDeltaLoop(cipher, key, input, deltas, state, out, i) ==
    IF i >= Len(input) THEN [err |-> "", out |-> out, calls |-> Calls(cipher, i)]
    ELSE LET bs == BlockSize(cipher)
             chunk == Chunk(input, i, bs)
             rest(keystream) ==
                 IF keystream.err # "" THEN FailedCall(keystream.err, Calls(cipher, i) + 1)
                 ELSE RandomDeltaLoop(cipher, key, input, deltas,
                                      XorBytes(state, deltas[(i \div bs) + 1], bs),
                                      out \o XorBytes(chunk, keystream.out, Len(chunk)),
                                      i + bs)
         IN  rest(CipherEncrypt(cipher, key, state))

RandomDeltaEncrypt(cipher, key, plaintext, iv, deltas) ==
    IF Len(iv) # BlockSize(cipher) THEN Failed("IV length must be block size")
    ELSE RandomDeltaLoop(cipher, key, plaintext, deltas, iv, <<>>, 0)

RandomDeltaDecrypt(cipher, key, ciphertext, iv, deltas) ==
    IF Len(iv) # BlockSize(cipher) THEN Failed("IV length must be block size")
    ELSE RandomDeltaLoop(cipher, key, ciphertext, deltas, iv, <<>>, 0)

ModeNames == {"ECB", "CBC", "PCBC", "CFB", "OFB", "CTR", "RANDOM_DELTA"}

\* Mode.Encrypt of the mode GetMode(name) returns
ModeEncrypt(name, cipher, key, plaintext, iv, deltas) ==
    CASE name = "ECB" -> ECBEncrypt(cipher, key, plaintext, iv)
      [] name = "CBC" -> CBCEncrypt(cipher, key, plaintext, iv)
      [] name = "PCBC" -> PCBCEncrypt(cipher, key, plaintext, iv)
      [] name = "CFB" -> CFBEncrypt(cipher, key, plaintext, iv)
      [] name = "OFB" -> OFBEncrypt(cipher, key, plaintext, iv)
      [] name = "CTR" -> CTREncrypt(cipher, key, plaintext, iv)
      [] name = "RANDOM_DELTA" -> RandomDeltaEncrypt(cipher, key, plaintext, iv, deltas)

\* Mode.Decrypt of the mode GetMode(name) returns
ModeDecrypt(name, cipher, key, ciphertext, iv, deltas) ==
    CASE name = "ECB" -> ECBDecrypt(cipher, key, ciphertext, iv)
      [] name = "CBC" -> CBCDecrypt(cipher, key, ciphertext, iv)
      [] name = "PCBC" -> PCBCDecrypt(cipher, key, ciphertext, iv)
      [] name = "CFB" -> CFBDecrypt(cipher, key, ciphertext, iv)
      [] name = "OFB" -> OFBDecrypt(cipher, key, ciphertext, iv)
      [] name = "CTR" -> CTRDecrypt(cipher, key, ciphertext, iv)
      [] name = "RANDOM_DELTA" -> RandomDeltaDecrypt(cipher, key, ciphertext, iv, deltas)

(***************************************************************************)
(* Test buffers                                                            *)
(***************************************************************************)
\* a buffer of len bytes determined by seed (seed 0: all zero)
GenBytes(len, seed) ==
    [i \in 1..len |-> ((seed * 73) + (i * seed * 29) + ((i * i) * (seed \div 2))) % 256]

Ascii16 == <<48, 49, 50, 51, 52, 53, 54, 55, 56, 57, 65, 66, 67, 68, 69, 70>>

RECURSIVE SeqsUpTo(_, _)
\* every sequence over S of length at most n
SeqsUpTo(S, n) ==
    IF n = 0 THEN {<<>>}
    ELSE LET shorter == SeqsUpTo(S, n - 1)
         IN  shorter \cup {Append(q, x) : q \in shorter, x \in S}

(***************************************************************************)
(* Padding schemes                                                         *)
(***************************************************************************)
\* Go's byte(n) conversion
ToByte(n) == n % 256

\* paddingLen that adds nothing to data already a multiple of the block size
PaddingLenNoFullBlock(dataLen, blockSize) == (blockSize - (dataLen % blockSize)) % blockSize

\* paddingLen as each Pad computes it
PaddingLen(dataLen, blockSize) ==
    LET paddingLen == blockSize - (dataLen % blockSize)
    IN  IF paddingLen = 0 THEN blockSize ELSE paddingLen

ZeroPad(data, blockSize) ==
    data \o [i \in 1..PaddingLen(Len(data), blockSize) |-> 0]

\* drops at most one zero byte from the end
StripOneZero(data) ==
    IF data # <<>> /\ data[Len(data)] = 0 THEN SubSeq(data, 1, Len(data) - 1) ELSE data

\* the loop of ZeroPadding.Unpad: i runs down from the last byte while
\* data[i] is zero, and data[:i+1] is returned
StripZeros(data) ==
    LET nonZero == {i \in 1..Len(data) : data[i] # 0}
        last == IF nonZero = {} THEN 0
                ELSE CHOOSE i \in nonZero : \A k \in nonZero : k <= i
    IN  SubSeq(data, 1, last)

ZeroUnpad(data) ==
    IF Len(data) = 0 THEN [err |-> "invalid padded data", out |-> <<>>]
    ELSE [err |-> "", out |-> StripZeros(data)]

PKCS7Pad(data, blockSize) ==
    LET paddingLen == PaddingLen(Len(data), blockSize)
    IN  data \o [i \in 1..paddingLen |-> ToByte(paddingLen)]

\* PKCS7 Unpad that trusts the length byte and skips the verification loop
PKCS7UnpadNoVerify(data) ==
    IF Len(data) = 0 THEN [err |-> "invalid padded data", out |-> <<>>]
    ELSE LET paddingLen == data[Len(data)]
         IN  IF paddingLen > Len(data) \/ paddingLen = 0
             THEN [err |-> "invalid padding length", out |-> <<>>]
             ELSE [err |-> "", out |-> SubSeq(data, 1, Len(data) - paddingLen)]

PKCS7Unpad(data) ==
    IF Len(data) = 0 THEN [err |-> "invalid padded data", out |-> <<>>]
    ELSE LET paddingLen == data[Len(data)]
         IN  IF paddingLen > Len(data) \/ paddingLen = 0
             THEN [err |-> "invalid padding length", out |-> <<>>]
             ELSE IF \E i \in (Len(data) - paddingLen + 1)..Len(data) :
                        data[i] # ToByte(paddingLen)
             THEN [err |-> "invalid padding", out |-> <<>>]
             ELSE [err |-> "", out |-> SubSeq(data, 1, Len(data) - paddingLen)]

\* ANSI X.923 Pad that writes the length byte into every padding position
ANSIX923PadAllLength(data, blockSize) ==
    LET paddingLen == PaddingLen(Len(data), blockSize)
    IN  data \o [i \in 1..paddingLen |-> ToByte(paddingLen)]

ANSIX923Pad(data, blockSize) ==
    LET paddingLen == PaddingLen(Len(data), blockSize)
    IN  data \o [i \in 1..paddingLen |-> IF i = paddingLen THEN ToByte(paddingLen) ELSE 0]

ANSIX923Unpad(data) ==
    IF Len(data) = 0 THEN [err |-> "invalid padded data", out |-> <<>>]
    ELSE LET paddingLen == data[Len(data)]
         IN  IF paddingLen > Len(data) \/ paddingLen = 0
             THEN [err |-> "invalid padding length", out |-> <<>>]
             ELSE IF \E i \in (Len(data) - paddingLen + 1)..(Len(data) - 1) : data[i] # 0
             THEN [err |-> "invalid padding", out |-> <<>>]
             ELSE [err |-> "", out |-> SubSeq(data, 1, Len(data) - paddingLen)]

\* rnd: the bytes rand.Read delivers, at least paddingLen-1 of them
ISO10126Pad(data, blockSize, rnd) ==
    LET paddingLen == PaddingLen(Len(data), blockSize)
    IN  data \o [i \in 1..paddingLen |-> IF i = paddingLen THEN ToByte(paddingLen) ELSE rnd[i]]

\* ISO 10126 Unpad that accepts a length byte of zero
ISO10126UnpadAcceptsZero(data) ==
    IF Len(data) = 0 THEN [err |-> "invalid padded data", out |-> <<>>]
    ELSE LET paddingLen == data[Len(data)]
         IN  IF paddingLen > Len(data)
             THEN [err |-> "invalid padding length", out |-> <<>>]
             ELSE [err |-> "", out |-> SubSeq(data, 1, Len(data) - paddingLen)]

ISO10126Unpad(data) ==
    IF Len(data) = 0 THEN [err |-> "invalid padded data", out |-> <<>>]
    ELSE LET paddingLen == data[Len(data)]
         IN  IF paddingLen > Len(data) \/ paddingLen = 0
             THEN [err |-> "invalid padding length", out |-> <<>>]
             ELSE [err |-> "", out |-> SubSeq(data, 1, Len(data) - paddingLen)]

PaddingNames == {"ZEROS", "PKCS7", "ANSI_X923", "ISO_10126"}

\* Padder.Pad of the padder GetPadder(name) returns
Pad(name, data, blockSize, rnd) ==
    CASE name = "ZEROS" -> ZeroPad(data, blockSize)
      [] name = "PKCS7" -> PKCS7Pad(data, blockSize)
      [] name = "ANSI_X923" -> ANSIX923Pad(data, blockSize)
      [] name = "ISO_10126" -> ISO10126Pad(data, blockSize, rnd)

\* Padder.Unpad of the padder GetPadder(name) returns
Unpad(name, data) ==
    CASE name = "ZEROS" -> ZeroUnpad(data)
      [] name = "PKCS7" -> PKCS7Unpad(data)
      [] name = "ANSI_X923" -> ANSIX923Unpad(data)
      [] name = "ISO_10126" -> ISO10126Unpad(data)

(***************************************************************************)
(* Diffie-Hellman (math/big values are integers here; byte strings are     *)
(* what big.Int.Bytes and big.Int.SetBytes make of them)                   *)
(***************************************************************************)
NilInt == 0 - 1

RECURSIVE BigBytes(_)
\* big.Int.Bytes: big-endian, no leading zero byte, empty for 0
BigBytes(n) == IF n = 0 THEN <<>> ELSE Append(BigBytes(n \div 256), n % 256)

RECURSIVE BigSetBytes(_)
\* big.Int.SetBytes: the big-endian unsigned value of b
BigSetBytes(b) ==
    IF b = <<>> THEN 0
    ELSE (BigSetBytes(SubSeq(b, 1, Len(b) - 1)) * 256) + b[Len(b)]

RECURSIVE ModExp(_, _, _)
\* big.Int.Exp(x, y, m) for y >= 0 and m > 0: x^y mod m
ModExp(x, y, m) ==
    IF y = 0 THEN 1 % m
    ELSE LET h == ModExp(x, y \div 2, m)
             sq == (h * h) % m
         IN  IF (y % 2) = 1 THEN (sq * (x % m)) % m ELSE sq

\* the private key GeneratePrivateKey makes of r = rand.Int(rand.Reader, p-2)
PrivateKey(prime, r) == r + 2

\* computePublicKey: g^a mod p
computePublicKey(g, a, prime) == ModExp(g, a, prime)

\* GetPublicKey: nil (the empty buffer) while no key was generated
GetPublicKey(pub) == IF pub = NilInt THEN <<>> ELSE BigBytes(pub)

\* GetPrime
GetPrime(prime) == BigBytes(prime)

RECURSIVE Reverse(_)
Reverse(b) == IF b = <<>> THEN <<>> ELSE Append(Reverse(Tail(b)), Head(b))

\* ComputeSharedSecret that reads the other party's key bytes in little-endian order
ComputeSharedSecretLittleEndian(prime, a, otherPublicKeyBytes) ==
    IF a = NilInt THEN [err |-> "private key not generated", out |-> <<>>]
    ELSE [err |-> "",
          out |-> BigBytes(ModExp(BigSetBytes(Reverse(otherPublicKeyBytes)), a, prime))]

\* ComputeSharedSecret on an instance with private key a: [err, out]
\* ComputeSharedSecret without the check of dh.a: a missing key counts as 0
ComputeSharedSecretNoKeyCheck(prime, a, otherPublicKeyBytes) ==
    IF a = NilInt THEN [err |-> "", out |-> <<1>>]
    ELSE [err |-> "", out |-> BigBytes(ModExp(BigSetBytes(otherPublicKeyBytes), a, prime))]

ComputeSharedSecret(prime, a, otherPublicKeyBytes) ==
    IF a = NilInt THEN [err |-> "private key not generated", out |-> <<>>]
    ELSE [err |-> "", out |-> BigBytes(ModExp(BigSetBytes(otherPublicKeyBytes), a, prime))]

(***************************************************************************)
(* Bounds of the model                                                     *)
(***************************************************************************)
MaxPadLen == 3        \* longest data handed to the padders

MaxRandSeed == 2      \* rand.Read outcomes tried: seeds 0..MaxRandSeed

MaxKeySeed == 1       \* keys tried per key length: seeds 0..MaxKeySeed

MaxBlockSeed == 3     \* blocks tried: seeds 0..MaxBlockSeed

MaxDHDraw == 8        \* rand.Int outcomes tried: 0..MaxDHDraw and the largest one

MaxMsgSeed == 1       \* messages tried per length: seeds 0..MaxMsgSeed

MaxDeltaSeed == 1     \* RANDOM_DELTA rand.Read outcomes tried: seeds 0..MaxDeltaSeed

MaxCmpBlocks == 3

BroadcastCap == 2     \* slots of the broadcast queue (1024 in New)

SendCap == 1          \* slots of a client's send channel (256 in handleWebSocket)

MaxEvents == 3        \* events passed to Broadcast in one run

MaxEvict == 2         \* eviction goroutines waiting for one client at once

MaxSockets == 11      \* sockets the client creates in one run

MaxContactRows == 3   \* contacts rows inserted in one run

MaxChatMsgs == 2      \* messages rows that chat 1 can hold at once

MaxTrialDivisor == 31 \* divisors tried on a precomputed prime: 2..MaxTrialDivisor

MaxTries == 6         \* rejected candidates counted in generateSafePrime

MaxGenBits == 7       \* largest size without a precomputed prime that is tried

MaxSpare == 4         \* largest spare capacity behind the shared slice

MaxCallers == 3       \* concurrent callers of GetGlobalDHParams

MaxGGCalls == 2       \* calls each of them makes, one after the other

MaxPrimeDraw == 2     \* outcomes of rand.Prime tried by generateSafePrime     \* longest plaintext of the ECB/CBC comparison, in blocks

NoRes == [err |-> "", out |-> <<>>]

IdleRC6 ==
    /\ rc6Key = <<>>
    /\ rc6CallKey = <<>>
    /\ rc6S = <<>>
    /\ rc6Err = ""
    /\ rc6In = <<>>
    /\ rc6Mid = <<>>
    /\ rc6Out = <<>>
    /\ rc6Dir = ""
    /\ rc6Pc = "idle"

IdlePad ==
    /\ padName = ""
    /\ padData = <<>>
    /\ padBS = 0
    /\ padPadded = <<>>
    /\ padRes = NoRes
    /\ padPc = "idle"

Parties == {"A", "B"}

NoSecret == [called |-> FALSE, err |-> "", out |-> <<>>, own |-> NilInt, peer |-> NilInt]

IdleDH ==
    /\ dhP = 0
    /\ dhG = 0
    /\ dhA = [x \in Parties |-> NilInt]
    /\ dhPub = [x \in Parties |-> NilInt]
    /\ dhSecret = [x \in Parties |-> NoSecret]

IdleModes ==
    /\ mCipher = [name |-> "", sched |-> <<>>]
    /\ mKey = <<>>
    /\ mMode = ""
    /\ mPad = ""
    /\ mIV = <<>>
    /\ mMsg = <<>>
    /\ mPlain = <<>>
    /\ mEnc = NoRes
    /\ mDec = NoRes
    /\ mUnp = NoRes
    /\ mPc = "idle"

IdleCmp ==
    /\ cmpKey = <<>>
    /\ cmpS = <<>>
    /\ cmpIV = <<>>
    /\ cmpPlain = <<>>
    /\ cmpECB = NoRes
    /\ cmpCBC = NoRes
    /\ cmpPc = "idle"

\* a nil interface value
Nil == "nil"

NoLookup == [path |-> "", alg |-> "", mode |-> "", padding |-> "", err |-> ""]

IdleLookup ==
    /\ lkAlg = ""
    /\ lkMode = ""
    /\ lkPadding = ""
    /\ lkRes = NoLookup
    /\ lkPc = "idle"

NoParams == [p |-> <<>>, g |-> 0]

IdleGlobals ==
    /\ dhGlobals = <<>>
    /\ ggPc = <<>>
    /\ ggDH = <<>>
    /\ ggRet = <<>>
    /\ ggFirst = <<>>
    /\ ggCalls = <<>>
    /\ ggReturned = {}

\* a nil byte slice (bytes are 0..255)
NilBytes == <<NilInt>>

\* a key the result map does not have
Absent == <<"absent">>

NoInit == [called |-> FALSE, user |-> 0, err |-> "", params |-> FALSE, pg |-> 0,
           other |-> Absent,
           second |-> FALSE, peerDone |-> NilBytes, peerStored |-> NilBytes,
           created |-> FALSE]

NoComplete == [called |-> FALSE, user |-> 0, hex |-> <<>>, err |-> "", event |-> 0]

IdleExchange ==
    /\ chatStatus = "none"
    /\ chatParams = 0
    /\ dhPublicKeys = <<>>
    /\ userPublicKey = <<>>
    /\ ccPc = "idle"
    /\ ccCreated = FALSE
    /\ lastInit = NoInit
    /\ lastComplete = NoComplete
    /\ completed = <<>>
    /\ hasInitiated = <<>>

NoSlice == [called |-> FALSE, err |-> "", shared |-> FALSE, len |-> 0, fresh |-> <<>>]

IdleAlias ==
    /\ alBuf = <<>>
    /\ alBuf0 = <<>>
    /\ alLen = 0
    /\ alOp = <<>>
    /\ alName = <<>>
    /\ alBS = <<>>
    /\ alRes = <<>>
    /\ alFirst = <<>>

NoDH == [p |-> <<>>, g |-> 0, err |-> ""]

IdlePrimeGen ==
    /\ pgBits = 0
    /\ pgPc = "idle"
    /\ pgCand = 0
    /\ pgTries = 0
    /\ pgRet = NoDH

IdleStdPrime ==
    /\ spBits = 0
    /\ spPc = "idle"
    /\ spP = <<>>
    /\ spG = 0
    /\ spFactor = 0
    /\ spN = <<>>
    /\ spLen = 0

NoRequest == [op |-> "", user |-> 0, chat |-> 0, err |-> "", http |-> 0, success |-> FALSE,
              events |-> {}, msgsBefore |-> <<>>, statusBefore |-> ""]

IdleChat ==
    /\ chCreator = 0
    /\ chStatus = "none"
    /\ chMessages = <<>>
    /\ chLast = NoRequest

HubClients == {1, 2}

IdleHub ==
    /\ hubQueue = <<>>
    /\ hubClients = {}
    /\ hubSend = [c \in HubClients |-> <<>>]
    /\ hubClosed = [c \in HubClients |-> 0]
    /\ hubPc = [c \in HubClients |-> "idle"]
    /\ hubWp = [c \in HubClients |-> "off"]
    /\ hubEvict = [c \in HubClients |-> 0]
    /\ hubNext = 0
    /\ hubWaiting = {}
    /\ hubDropped = {}
    /\ hubProcessed = {}
    /\ hubPanic = FALSE

NoContact == [id |-> 0, requester |-> 0, status |-> ""]

NoAccept == [user |-> 0, saw |-> ""]

ContactIdle == [action |-> "", contact |-> NoContact]

IdleContact ==
    /\ ctRow = NoContact
    /\ ctNextId = 0
    /\ ctPc = <<>>
    /\ ctLast = <<>>
    /\ ctAccept = NoAccept

NoSockets == [connecting |-> 0, open |-> 0]

IdleClient ==
    /\ ws = "null"
    /\ wsOthers = NoSockets
    /\ wsClosing = 0
    /\ wsTimers = 0
    /\ reconnectAttempts = 0
    /\ wsCreated = 0
    /\ wsSinceOpen = 0
    /\ wsLastDelay = 0
    /\ wsDisconnected = FALSE
    /\ wsReopened = FALSE

(***************************************************************************)
(* Padding: Pad then Unpad, or Unpad of a buffer as received               *)
(***************************************************************************)
PadBytes == {0, 1, 2, 255}

PadBlockSizes == {1, 2, 3, 4, 8, 16, 255, 256}

PadFrame == UNCHANGED <<rc6Vars, dhVars, modeVars, cmpVars, lkVars, ggVars, xVars, alVars, pgVars, spVars, chVars, hubVars, ctVars, wsVars>>

PadInit ==
    /\ padName \in PaddingNames
    /\ padData \in SeqsUpTo(PadBytes, MaxPadLen)
    /\ padBS \in PadBlockSizes
    /\ padPadded = <<>>
    /\ padRes = NoRes
    /\ padPc = "start"
    /\ IdleRC6
    /\ IdleDH
    /\ IdleModes
    /\ IdleCmp
    /\ IdleLookup
    /\ IdleGlobals
    /\ IdleExchange
    /\ IdleAlias
    /\ IdlePrimeGen
    /\ IdleStdPrime
    /\ IdleChat
    /\ IdleHub
    /\ IdleContact
    /\ IdleClient

\* padder.Pad(data, blockSize)
PadCall ==
    /\ padPc = "start"
    /\ \E seed \in 0..MaxRandSeed :
           padPadded' = Pad(padName, padData, padBS, GenBytes(padBS, seed))
    /\ padPc' = "padded"
    /\ UNCHANGED <<padName, padData, padBS, padRes>>
    /\ PadFrame

\* padder.Unpad on what Pad returned
UnpadCall ==
    /\ padPc = "padded"
    /\ padRes' = Unpad(padName, padPadded)
    /\ padPc' = "done"
    /\ UNCHANGED <<padName, padData, padBS, padPadded>>
    /\ PadFrame

\* padder.Unpad on a buffer that no Pad produced
UnpadRaw ==
    /\ padPc = "start"
    /\ padPadded' = padData
    /\ padRes' = Unpad(padName, padData)
    /\ padPc' = "raw"
    /\ UNCHANGED <<padName, padData, padBS>>
    /\ PadFrame

PadNext == PadCall \/ UnpadCall \/ UnpadRaw

SpecPad == PadInit /\ [][PadNext]_vars

(***************************************************************************)
(* RC6: construct an instance, then Encrypt/Decrypt or Decrypt/Encrypt     *)
(***************************************************************************)
RC6KeyLens == (RC6MinKey - 1)..(RC6MaxKey + 1)

RC6Keys ==
    {GenBytes(n, seed) : n \in RC6KeyLens, seed \in 0..MaxKeySeed}
        \cup {Ascii16, Ascii16 \o Ascii16}

RC6Blocks ==
    {GenBytes(RC6BlockSize, seed) : seed \in 0..MaxBlockSeed}
        \cup {Ascii16, [i \in 1..RC6BlockSize |-> 255], GenBytes(RC6BlockSize - 1, 1)}

RC6Frame == UNCHANGED <<padVars, dhVars, modeVars, cmpVars, lkVars, ggVars, xVars, alVars, pgVars, spVars, chVars, hubVars, ctVars, wsVars>>

RC6Init ==
    /\ rc6Key \in RC6Keys
    /\ rc6CallKey \in {rc6Key, Ascii16}
    /\ rc6In \in RC6Blocks
    /\ rc6Dir \in {"ED", "DE"}
    /\ rc6S = <<>>
    /\ rc6Err = ""
    /\ rc6Mid = <<>>
    /\ rc6Out = <<>>
    /\ rc6Pc = "new"
    /\ IdlePad
    /\ IdleDH
    /\ IdleModes
    /\ IdleCmp
    /\ IdleLookup
    /\ IdleGlobals
    /\ IdleExchange
    /\ IdleAlias
    /\ IdlePrimeGen
    /\ IdleStdPrime
    /\ IdleChat
    /\ IdleHub
    /\ IdleContact
    /\ IdleClient

\* NewRC6 that enforces only the upper limit on the key length
NewRC6NoLowerLimit ==
    /\ rc6Pc = "new"
    /\ IF Len(rc6Key) > RC6MaxKey
       THEN /\ rc6Err' = "RC6 key must be between 16 and 32 bytes"
            /\ rc6Pc' = "failed"
            /\ rc6S' = rc6S
       ELSE /\ rc6S' = expandKey(rc6Key)
            /\ rc6Pc' = "first"
            /\ rc6Err' = rc6Err
    /\ UNCHANGED <<rc6Key, rc6CallKey, rc6In, rc6Mid, rc6Out, rc6Dir>>
    /\ RC6Frame

\* NewRC6(key)
NewRC6 ==
    /\ rc6Pc = "new"
    /\ IF Len(rc6Key) < RC6MinKey \/ Len(rc6Key) > RC6MaxKey
       THEN /\ rc6Err' = "RC6 key must be between 16 and 32 bytes"
            /\ rc6Pc' = "failed"
            /\ rc6S' = rc6S
       ELSE /\ rc6S' = expandKey(rc6Key)
            /\ rc6Pc' = "first"
            /\ rc6Err' = rc6Err
    /\ UNCHANGED <<rc6Key, rc6CallKey, rc6In, rc6Mid, rc6Out, rc6Dir>>
    /\ RC6Frame

\* a block call that zeroes the round keys when it fails
RC6StoreWipingOnError(r) ==
    /\ IF r.err # ""
       THEN /\ rc6Err' = r.err
            /\ rc6Pc' = "failed"
            /\ rc6S' = [i \in DOMAIN rc6S |-> <<0, 0>>]
            /\ UNCHANGED <<rc6Mid, rc6Out>>
       ELSE /\ rc6Err' = rc6Err
            /\ rc6S' = rc6S
            /\ IF rc6Pc = "first"
               THEN rc6Mid' = r.out /\ rc6Out' = rc6Out /\ rc6Pc' = "second"
               ELSE rc6Out' = r.out /\ rc6Mid' = rc6Mid /\ rc6Pc' = "done"
    /\ UNCHANGED <<rc6Key, rc6CallKey, rc6In, rc6Dir>>
    /\ RC6Frame

\* the result r of a block call is stored and the position advances
RC6Store(r) ==
    /\ IF r.err # ""
       THEN /\ rc6Err' = r.err
            /\ rc6Pc' = "failed"
            /\ UNCHANGED <<rc6Mid, rc6Out>>
       ELSE /\ rc6Err' = rc6Err
            /\ IF rc6Pc = "first"
               THEN rc6Mid' = r.out /\ rc6Out' = rc6Out /\ rc6Pc' = "second"
               ELSE rc6Out' = r.out /\ rc6Mid' = rc6Mid /\ rc6Pc' = "done"
    /\ UNCHANGED <<rc6Key, rc6CallKey, rc6S, rc6In, rc6Dir>>
    /\ RC6Frame

\* cipher.Encrypt(key, block)
RC6EncryptCall ==
    /\ \/ rc6Pc = "first" /\ rc6Dir = "ED"
       \/ rc6Pc = "second" /\ rc6Dir = "DE"
    /\ RC6Store(RC6Encrypt(rc6S, rc6CallKey, IF rc6Pc = "first" THEN rc6In ELSE rc6Mid))

\* cipher.Decrypt(key, block)
RC6DecryptCall ==
    /\ \/ rc6Pc = "first" /\ rc6Dir = "DE"
       \/ rc6Pc = "second" /\ rc6Dir = "ED"
    /\ RC6Store(RC6Decrypt(rc6S, rc6CallKey, IF rc6Pc = "first" THEN rc6In ELSE rc6Mid))

RC6Next == NewRC6 \/ RC6EncryptCall \/ RC6DecryptCall

SpecRC6 == RC6Init /\ [][RC6Next]_vars

(***************************************************************************)
(* Diffie-Hellman: two instances that share (p, g), as NewKeyAgreement     *)
(* builds them; each generates its key and computes the shared secret      *)
(***************************************************************************)
DHPrimes == {5, 7, 11, 23, 263, 383}

DHGenerators == {2, 3}

\* the values rand.Int(rand.Reader, max) is taken to return, out of 0..max-1
DHDraws(max) == {r \in 0..(max - 1) : r <= MaxDHDraw \/ r = max - 1}

Other(x) == IF x = "A" THEN "B" ELSE "A"

DHFrame == UNCHANGED <<rc6Vars, padVars, modeVars, cmpVars, lkVars, ggVars, xVars, alVars, pgVars, spVars, chVars, hubVars, ctVars, wsVars>>

DHInit ==
    /\ dhP \in DHPrimes
    /\ dhG \in DHGenerators
    /\ dhA = [x \in Parties |-> NilInt]
    /\ dhPub = [x \in Parties |-> NilInt]
    /\ dhSecret = [x \in Parties |-> NoSecret]
    /\ IdleRC6
    /\ IdlePad
    /\ IdleModes
    /\ IdleCmp
    /\ IdleLookup
    /\ IdleGlobals
    /\ IdleExchange
    /\ IdleAlias
    /\ IdlePrimeGen
    /\ IdleStdPrime
    /\ IdleChat
    /\ IdleHub
    /\ IdleContact
    /\ IdleClient

\* dh.GeneratePrivateKey() on party x's instance
GeneratePrivateKey(x) ==
    /\ dhA[x] = NilInt
    /\ \E r \in DHDraws(dhP - 2) :
           LET a == PrivateKey(dhP, r)
           IN  /\ dhA' = [dhA EXCEPT ![x] = a]
               /\ dhPub' = [dhPub EXCEPT ![x] = computePublicKey(dhG, a, dhP)]
    /\ UNCHANGED <<dhP, dhG, dhSecret>>
    /\ DHFrame

\* x.ComputeSharedSecret(other.GetPublicKey())
ComputeSecret(x) ==
    /\ ~dhSecret[x].called
    /\ LET r == ComputeSharedSecret(dhP, dhA[x], GetPublicKey(dhPub[Other(x)]))
       IN  dhSecret' = [dhSecret EXCEPT
                           ![x] = [called |-> TRUE, err |-> r.err, out |-> r.out,
                                   own |-> dhA[x], peer |-> dhPub[Other(x)]]]
    /\ UNCHANGED <<dhP, dhG, dhA, dhPub>>
    /\ DHFrame

DHNext == \E x \in Parties : GeneratePrivateKey(x) \/ ComputeSecret(x)

SpecDH == DHInit /\ [][DHNext]_vars

(***************************************************************************)
(* Modes: [Pad,] Encrypt, Decrypt [, Unpad] with one cipher instance and   *)
(* the same key and IV on both sides                                       *)
(***************************************************************************)
CipherNames == {"RC6", "LOKI97"}

ModeKeyOf(name) == IF name = "RC6" THEN Ascii16 \o Ascii16 ELSE Ascii16

\* message lengths for block size bs: empty, one byte, one short of a block,
\* a block, a block and a byte, two blocks and a byte
MsgLens(bs) == {0, 1, bs - 1, bs, bs + 1, (2 * bs) + 1}

Messages(bs) == {GenBytes(n, seed) : n \in MsgLens(bs), seed \in 0..MaxMsgSeed}

\* an IV of the block size, the nil IV, and an IV of another length (8 bytes
\* for a 16-byte block, 16 bytes for an 8-byte block)
IVs(bs) == {SubSeq(Ascii16, 1, bs), <<>>, SubSeq(Ascii16, 1, 24 - bs)}

\* the padders a caller combines with mode
PadsFor(mode) == IF mode = "RANDOM_DELTA" THEN {"NONE"} ELSE PaddingNames \cup {"NONE"}

\* the blocks rand.Read may deliver in the loop passes over a buffer of len bytes
DeltaSeqs(mode, len, bs) ==
    IF mode = "RANDOM_DELTA"
    THEN [1..((len + bs - 1) \div bs) -> {GenBytes(bs, seed) : seed \in 0..MaxDeltaSeed}]
    ELSE {<<>>}

ModesFrame == UNCHANGED <<rc6Vars, padVars, dhVars, cmpVars, lkVars, ggVars, xVars, alVars, pgVars, spVars, chVars, hubVars, ctVars, wsVars>>

ModesInit ==
    /\ \E name \in CipherNames :
           /\ mKey = ModeKeyOf(name)
           /\ mCipher = NewCipher(name, mKey).cipher
    /\ mMode \in ModeNames
    /\ mPad \in PadsFor(mMode)
    /\ mIV \in IVs(BlockSize(mCipher))
    /\ mMsg \in Messages(BlockSize(mCipher))
    /\ mPlain = <<>>
    /\ mEnc = NoRes
    /\ mDec = NoRes
    /\ mUnp = NoRes
    /\ mPc = "start"
    /\ IdleRC6
    /\ IdlePad
    /\ IdleDH
    /\ IdleCmp
    /\ IdleLookup
    /\ IdleGlobals
    /\ IdleExchange
    /\ IdleAlias
    /\ IdlePrimeGen
    /\ IdleStdPrime
    /\ IdleChat
    /\ IdleHub
    /\ IdleContact
    /\ IdleClient

\* padder.Pad(msg, cipher.BlockSize())
ModesPad ==
    /\ mPc = "start"
    /\ mPad # "NONE"
    /\ \E seed \in 0..MaxRandSeed :
           mPlain' = Pad(mPad, mMsg, BlockSize(mCipher), GenBytes(BlockSize(mCipher), seed))
    /\ mPc' = "padded"
    /\ UNCHANGED <<mCipher, mKey, mMode, mPad, mIV, mMsg, mEnc, mDec, mUnp>>
    /\ ModesFrame

\* the caller hands the message to the mode as it is
ModesNoPad ==
    /\ mPc = "start"
    /\ mPad = "NONE"
    /\ mPlain' = mMsg
    /\ mPc' = "padded"
    /\ UNCHANGED <<mCipher, mKey, mMode, mPad, mIV, mMsg, mEnc, mDec, mUnp>>
    /\ ModesFrame

\* mode.Encrypt(cipher, key, plaintext, iv)
ModesEncrypt ==
    /\ mPc = "padded"
    /\ \E deltas \in DeltaSeqs(mMode, Len(mPlain), BlockSize(mCipher)) :
           mEnc' = ModeEncrypt(mMode, mCipher, mKey, mPlain, mIV, deltas)
    /\ mPc' = IF mEnc'.err # "" THEN "failed" ELSE "encrypted"
    /\ UNCHANGED <<mCipher, mKey, mMode, mPad, mIV, mMsg, mPlain, mDec, mUnp>>
    /\ ModesFrame

\* mode.Decrypt(cipher, key, ciphertext, iv)
ModesDecrypt ==
    /\ mPc = "encrypted"
    /\ \E deltas \in DeltaSeqs(mMode, Len(mEnc.out), BlockSize(mCipher)) :
           mDec' = ModeDecrypt(mMode, mCipher, mKey, mEnc.out, mIV, deltas)
    /\ mPc' = IF mDec'.err # "" THEN "failed" ELSE "decrypted"
    /\ UNCHANGED <<mCipher, mKey, mMode, mPad, mIV, mMsg, mPlain, mEnc, mUnp>>
    /\ ModesFrame

\* mode.Decrypt(cipher, key, buf, iv) on a buffer as received
ModesDecryptRaw ==
    /\ mPc = "padded"
    /\ \E deltas \in DeltaSeqs(mMode, Len(mPlain), BlockSize(mCipher)) :
           mDec' = ModeDecrypt(mMode, mCipher, mKey, mPlain, mIV, deltas)
    /\ mPc' = "received"
    /\ UNCHANGED <<mCipher, mKey, mMode, mPad, mIV, mMsg, mPlain, mEnc, mUnp>>
    /\ ModesFrame

\* padder.Unpad(decrypted)
ModesUnpad ==
    /\ mPc = "decrypted"
    /\ mPad # "NONE"
    /\ mUnp' = Unpad(mPad, mDec.out)
    /\ mPc' = "done"
    /\ UNCHANGED <<mCipher, mKey, mMode, mPad, mIV, mMsg, mPlain, mEnc, mDec>>
    /\ ModesFrame

\* counters whose increments carry: plain, last byte 0xFF, last byte 0xFE with
\* 0xFF before it, and all bytes 0xFF
CounterIVs(bs) ==
    {SubSeq(Ascii16, 1, bs),
     [j \in 1..bs |-> IF j = bs THEN 255 ELSE j],
     [j \in 1..bs |-> IF j = bs THEN 254 ELSE IF j >= bs - 2 THEN 255 ELSE 0],
     [j \in 1..bs |-> 255]}

\* a CTR run: the mode is CTR and the IV one of the counters above
CTRInit ==
    /\ \E name \in CipherNames :
           /\ mKey = ModeKeyOf(name)
           /\ mCipher = NewCipher(name, mKey).cipher
    /\ mMode = "CTR"
    /\ mPad \in PadsFor(mMode)
    /\ mIV \in CounterIVs(BlockSize(mCipher))
    /\ mMsg \in Messages(BlockSize(mCipher))
    /\ mPlain = <<>>
    /\ mEnc = NoRes
    /\ mDec = NoRes
    /\ mUnp = NoRes
    /\ mPc = "start"
    /\ IdleRC6
    /\ IdlePad
    /\ IdleDH
    /\ IdleCmp
    /\ IdleLookup
    /\ IdleGlobals
    /\ IdleExchange
    /\ IdleAlias
    /\ IdlePrimeGen
    /\ IdleStdPrime
    /\ IdleChat
    /\ IdleHub
    /\ IdleContact
    /\ IdleClient

ModesNext ==
    ModesPad \/ ModesNoPad \/ ModesEncrypt \/ ModesDecrypt \/ ModesDecryptRaw \/ ModesUnpad

SpecModes == ModesInit /\ [][ModesNext]_vars

SpecCTR == CTRInit /\ [][ModesNext]_vars

(***************************************************************************)
(* ECB and CBC on one plaintext: both modes encrypt the same block-aligned *)
(* buffer under one RC6 instance and key                                   *)
(***************************************************************************)
CmpKeys == {Ascii16, Ascii16 \o Ascii16}

ZeroBlock == [i \in 1..RC6BlockSize |-> 0]

CmpIVs == {ZeroBlock, Ascii16}

\* the blocks plaintexts are built from: the zero block, a text block and
\* the block the instance encrypts to the zero block
CmpBlocks(S, key) == {ZeroBlock, Ascii16, RC6Decrypt(S, key, ZeroBlock).out}

\* the buffer made of the given blocks in order
Flatten(blocks) ==
    [k \in 1..(Len(blocks) * RC6BlockSize) |->
        blocks[((k - 1) \div RC6BlockSize) + 1][((k - 1) % RC6BlockSize) + 1]]

\* every plaintext of 2..MaxCmpBlocks blocks with two identical blocks
CmpPlaintexts(S, key) ==
    {Flatten(blocks) :
        blocks \in {b \in UNION {[1..n -> CmpBlocks(S, key)] : n \in 2..MaxCmpBlocks} :
                        \E i, j \in DOMAIN b : i < j /\ b[i] = b[j]}}

CmpFrame == UNCHANGED <<rc6Vars, padVars, dhVars, modeVars, lkVars, ggVars, xVars, alVars, pgVars, spVars, chVars, hubVars, ctVars, wsVars>>

CmpInit ==
    /\ cmpKey \in CmpKeys
    /\ cmpS = expandKey(cmpKey)
    /\ cmpIV \in CmpIVs
    /\ cmpPlain \in CmpPlaintexts(cmpS, cmpKey)
    /\ cmpECB = NoRes
    /\ cmpCBC = NoRes
    /\ cmpPc = "start"
    /\ IdleRC6
    /\ IdlePad
    /\ IdleDH
    /\ IdleModes
    /\ IdleLookup
    /\ IdleGlobals
    /\ IdleExchange
    /\ IdleAlias
    /\ IdlePrimeGen
    /\ IdleStdPrime
    /\ IdleChat
    /\ IdleHub
    /\ IdleContact
    /\ IdleClient

\* ecb.Encrypt(cipher, key, padded, nil)
CmpECB ==
    /\ cmpPc = "start"
    /\ cmpECB' = ModeEncrypt("ECB", [name |-> "RC6", sched |-> cmpS], cmpKey, cmpPlain, <<>>, <<>>)
    /\ cmpPc' = "ecb"
    /\ UNCHANGED <<cmpKey, cmpS, cmpIV, cmpPlain, cmpCBC>>
    /\ CmpFrame

\* cbc.Encrypt(cipher, key, padded, iv)
CmpCBC ==
    /\ cmpPc = "ecb"
    /\ cmpCBC' = ModeEncrypt("CBC", [name |-> "RC6", sched |-> cmpS], cmpKey, cmpPlain, cmpIV, <<>>)
    /\ cmpPc' = "both"
    /\ UNCHANGED <<cmpKey, cmpS, cmpIV, cmpPlain, cmpECB>>
    /\ CmpFrame

CmpNext == CmpECB \/ CmpCBC

SpecCmp == CmpInit /\ [][CmpNext]_vars

(***************************************************************************)
(* Selecting an algorithm, a mode or a padding by name                     *)
(***************************************************************************)
AlgorithmNames == {"LOKI97", "RC6"}

\* the names tried: every supported name, names outside the sets, and the
\* empty string (in TypeScript also the omitted argument)
AlgorithmInputs == AlgorithmNames \cup {"AES", "rc6", ""}

ModeInputs == ModeNames \cup {"XTS", "cbc", ""}

PaddingInputs == PaddingNames \cup {"NONE", "pkcs7", ""}

\* GetMode(modeName): the Mode implementation, nil in the default branch
GetMode(modeName) == IF modeName \in ModeNames THEN modeName ELSE Nil

\* GetPadder(paddingName): the Padder implementation, nil in the default branch
GetPadder(paddingName) == IF paddingName \in PaddingNames THEN paddingName ELSE Nil

\* switch alg of the binding's Encrypt: the cipher built, or the error
SwitchAlg(alg) ==
    IF alg \in AlgorithmNames
    THEN [alg |-> alg, err |-> ""]
    ELSE [alg |-> Nil, err |-> "unknown algorithm"]

isSupportedMode(mode) == mode \in ModeNames

isSupportedPadding(padding) == padding \in PaddingNames

getDefaultModeAndPadding == [mode |-> "CBC", padding |-> "PKCS7"]

\* validateEncryptionConfig(mode, padding); a falsy argument is ""
validateEncryptionConfig(mode, padding) ==
    [mode    |-> IF mode # "" /\ isSupportedMode(mode)
                 THEN mode ELSE getDefaultModeAndPadding.mode,
     padding |-> IF padding # "" /\ isSupportedPadding(padding)
                 THEN padding ELSE getDefaultModeAndPadding.padding]

LookupFrame == UNCHANGED <<rc6Vars, padVars, dhVars, modeVars, cmpVars, ggVars, xVars, alVars, pgVars, spVars, chVars, hubVars, ctVars, wsVars>>

LookupInit ==
    /\ lkAlg \in AlgorithmInputs
    /\ lkMode \in ModeInputs
    /\ lkPadding \in PaddingInputs
    /\ lkRes = NoLookup
    /\ lkPc = "request"
    /\ IdleRC6
    /\ IdlePad
    /\ IdleDH
    /\ IdleModes
    /\ IdleCmp
    /\ IdleGlobals
    /\ IdleExchange
    /\ IdleAlias
    /\ IdlePrimeGen
    /\ IdleStdPrime
    /\ IdleChat
    /\ IdleHub
    /\ IdleContact
    /\ IdleClient

\* modes.GetMode(name): one result, no error value
LookupGetMode ==
    /\ lkPc = "request"
    /\ lkRes' = [path |-> "GetMode", alg |-> "", mode |-> GetMode(lkMode),
                 padding |-> "", err |-> ""]
    /\ lkPc' = "returned"
    /\ UNCHANGED <<lkAlg, lkMode, lkPadding>>
    /\ LookupFrame

\* padding.GetPadder(name): one result, no error value
LookupGetPadder ==
    /\ lkPc = "request"
    /\ lkRes' = [path |-> "GetPadder", alg |-> "", mode |-> "",
                 padding |-> GetPadder(lkPadding), err |-> ""]
    /\ lkPc' = "returned"
    /\ UNCHANGED <<lkAlg, lkMode, lkPadding>>
    /\ LookupFrame

\* WasmCrypto.Encrypt(alg, ...): the algorithm switch
LookupSwitchAlg ==
    /\ lkPc = "request"
    /\ lkRes' = [path |-> "Encrypt", alg |-> SwitchAlg(lkAlg).alg, mode |-> "",
                 padding |-> "", err |-> SwitchAlg(lkAlg).err]
    /\ lkPc' = "returned"
    /\ UNCHANGED <<lkAlg, lkMode, lkPadding>>
    /\ LookupFrame

\* validateEncryptionConfig(mode, padding): returns a configuration, never throws
LookupValidateConfig ==
    /\ lkPc = "request"
    /\ lkRes' = [path |-> "validateEncryptionConfig", alg |-> "",
                 mode |-> validateEncryptionConfig(lkMode, lkPadding).mode,
                 padding |-> validateEncryptionConfig(lkMode, lkPadding).padding,
                 err |-> ""]
    /\ lkPc' = "returned"
    /\ UNCHANGED <<lkAlg, lkMode, lkPadding>>
    /\ LookupFrame

LookupNext ==
    LookupGetMode \/ LookupGetPadder \/ LookupSwitchAlg \/ LookupValidateConfig

SpecLookup == LookupInit /\ [][LookupNext]_vars

(***************************************************************************)
(* GetGlobalDHParams called concurrently on one database                   *)
(***************************************************************************)
Callers == 1..MaxCallers

\* the sizes that have an entry in StandardPrimes
StandardBits == {1024, 2048}

\* StandardPrimes[bits]: the fixed prime of that size, named by its entry
StandardPrimes(bits) == <<"StandardPrimes", bits>>

\* generateSafePrime(bits): a random safe prime, named by the draw
generateSafePrime(bits) == {<<"rand.Prime", bits, r>> : r \in 1..MaxPrimeDraw}

\* NewDiffieHellman that draws a fresh safe prime for every size
NewDiffieHellmanGenerated(primeBits) ==
    {[p |-> q, g |-> 2] : q \in generateSafePrime(primeBits)}

\* NewDiffieHellman(primeBits): the instances it can return
NewDiffieHellman(primeBits) ==
    IF primeBits \in StandardBits
    THEN {[p |-> StandardPrimes(primeBits), g |-> 2]}
    ELSE {[p |-> q, g |-> 2] : q \in generateSafePrime(primeBits)}

GlobalsFrame == UNCHANGED <<rc6Vars, padVars, dhVars, modeVars, cmpVars, lkVars, xVars, alVars, pgVars, spVars, chVars, hubVars, ctVars, wsVars>>

\* the schema has just been created: dh_globals is empty
GlobalsInit ==
    /\ dhGlobals = <<>>
    /\ ggPc = [c \in Callers |-> "idle"]
    /\ ggDH = [c \in Callers |-> NoParams]
    /\ ggRet = [c \in Callers |-> NoParams]
    /\ ggFirst = [c \in Callers |-> FALSE]
    /\ ggCalls = [c \in Callers |-> 0]
    /\ ggReturned = {}
    /\ IdleRC6
    /\ IdlePad
    /\ IdleDH
    /\ IdleModes
    /\ IdleCmp
    /\ IdleLookup
    /\ IdleExchange
    /\ IdleAlias
    /\ IdlePrimeGen
    /\ IdleStdPrime
    /\ IdleChat
    /\ IdleHub
    /\ IdleContact
    /\ IdleClient

\* s.store.GetGlobalDHParameters(): SELECT p, g FROM dh_globals ORDER BY id
\* LIMIT 1, returned to the caller when a row exists
GetGlobalDHParameters(c) ==
    /\ ggPc[c] = "idle"
    /\ ggCalls[c] < MaxGGCalls
    /\ IF dhGlobals # <<>>
       THEN /\ ggRet' = [ggRet EXCEPT ![c] = [p |-> dhGlobals[1].p, g |-> dhGlobals[1].g]]
            /\ ggReturned' = ggReturned \cup {[p |-> dhGlobals[1].p, g |-> dhGlobals[1].g]}
            /\ ggCalls' = [ggCalls EXCEPT ![c] = @ + 1]
            /\ UNCHANGED <<ggPc, ggFirst>>
       ELSE /\ ggPc' = [ggPc EXCEPT ![c] = "generate"]
            /\ ggFirst' = [ggFirst EXCEPT ![c] = TRUE]
            /\ UNCHANGED <<ggRet, ggReturned, ggCalls>>
    /\ UNCHANGED <<dhGlobals, ggDH>>
    /\ GlobalsFrame

\* dh, err := crypto.NewDiffieHellman(2048)
GenerateGlobalParams(c) ==
    /\ ggPc[c] = "generate"
    /\ \E dh \in NewDiffieHellman(2048) : ggDH' = [ggDH EXCEPT ![c] = dh]
    /\ ggPc' = [ggPc EXCEPT ![c] = "save"]
    /\ UNCHANGED <<dhGlobals, ggRet, ggFirst, ggCalls, ggReturned>>
    /\ GlobalsFrame

\* s.store.SaveGlobalDHParameters(p, g): INSERT INTO dh_globals (p, g), then
\* return dh.GetPrime(), dh.GetGenerator()
SaveGlobalDHParameters(c) ==
    /\ ggPc[c] = "save"
    /\ dhGlobals' = Append(dhGlobals, [id |-> Len(dhGlobals) + 1, p |-> ggDH[c].p, g |-> ggDH[c].g])
    /\ ggRet' = [ggRet EXCEPT ![c] = ggDH[c]]
    /\ ggReturned' = ggReturned \cup {ggDH[c]}
    /\ ggCalls' = [ggCalls EXCEPT ![c] = @ + 1]
    /\ ggPc' = [ggPc EXCEPT ![c] = "idle"]
    /\ UNCHANGED <<ggDH, ggFirst>>
    /\ GlobalsFrame

GlobalsNext ==
    \E c \in Callers :
        \/ GetGlobalDHParameters(c)
        \/ GenerateGlobalParams(c)
        \/ SaveGlobalDHParameters(c)

SpecGlobals == GlobalsInit /\ [][GlobalsNext]_vars

(***************************************************************************)
(* DH exchange for a chat: CreateChat, CloseChat, InitiateDHExchange and   *)
(* CompleteDHExchange on one database                                      *)
(***************************************************************************)
\* users 1 and 2 are the chat's participants, user 3 is not in the chat
ChatUsers == {1, 2}

ExchangeCallers == {1, 2, 3}

otherUserID(u) == 3 - u

\* users.public_key as stored at registration: NULL or a key
AccountKeys == {NilBytes, <<1>>}

\* hex texts sent as public_key, one character per element; the handler has
\* refused the empty text before the service is called
\* the (p, g) pairs that the dh_globals table can hand to a CreateChat call
ParamPairs == {1, 2}

\* the pair GetGlobalDHParams gives a CreateChat call: one pair to the first
\* call for the two users and another pair to every later call
GetGlobalDHParams(later) == IF later THEN 2 ELSE 1

HexInputs == {<<"0", "a">>, <<"0", "A">>, <<"f", "f">>, <<"0", "g">>, <<"a">>}

HexDigits == <<"0", "1", "2", "3", "4", "5", "6", "7", "8", "9", "a", "b", "c", "d", "e", "f">>

HexUpper == <<"A", "B", "C", "D", "E", "F">>

\* value of a hex character, NilInt for any other character
fromHexChar(c) ==
    IF \E i \in 1..16 : HexDigits[i] = c
    THEN (CHOOSE i \in 1..16 : HexDigits[i] = c) - 1
    ELSE IF \E i \in 1..6 : HexUpper[i] = c
         THEN (CHOOSE i \in 1..6 : HexUpper[i] = c) + 9
         ELSE NilInt

\* hex.DecodeString(s)
HexDecodeString(s) ==
    IF \E i \in 1..Len(s) : fromHexChar(s[i]) = NilInt
    THEN [err |-> "encoding/hex: invalid byte", out |-> <<>>]
    ELSE IF Len(s) % 2 = 1
         THEN [err |-> "encoding/hex: odd length hex string", out |-> <<>>]
         ELSE [err |-> "",
               out |-> [i \in 1..(Len(s) \div 2) |->
                           16 * fromHexChar(s[2 * i - 1]) + fromHexChar(s[2 * i])]]

\* hex.EncodeToString(b)
HexEncodeToString(b) ==
    [i \in 1..(2 * Len(b)) |->
        HexDigits[(IF i % 2 = 1 THEN b[(i + 1) \div 2] \div 16 ELSE b[i \div 2] % 16) + 1]]

ExchangeFrame == UNCHANGED <<rc6Vars, padVars, dhVars, modeVars, cmpVars, lkVars, ggVars, alVars, pgVars, spVars, chVars, hubVars, ctVars, wsVars>>

\* both users are registered, with or without an account key; no chat yet
ExchangeInit ==
    /\ chatStatus = "none"
    /\ chatParams = 0
    /\ dhPublicKeys = [u \in ExchangeCallers |-> NilBytes]
    /\ userPublicKey \in [ChatUsers -> AccountKeys]
    /\ ccPc = "idle"
    /\ ccCreated = FALSE
    /\ lastInit = NoInit
    /\ lastComplete = NoComplete
    /\ completed = [u \in ChatUsers |-> NilBytes]
    /\ hasInitiated = [u \in ChatUsers |-> FALSE]
    /\ IdleRC6
    /\ IdlePad
    /\ IdleDH
    /\ IdleModes
    /\ IdleCmp
    /\ IdleLookup
    /\ IdleGlobals
    /\ IdleAlias
    /\ IdlePrimeGen
    /\ IdleStdPrime
    /\ IdleChat
    /\ IdleHub
    /\ IdleContact
    /\ IdleClient

\* CreateChat up to the chat row: GetChatByUsers, then CreateChat of the store
\* or ReopenChat of a closed chat; an active chat makes it return early
CreateChatOpen ==
    /\ ccPc = "idle"
    /\ chatStatus # "active"
    /\ chatStatus' = "active"
    /\ ccPc' = "params"
    /\ UNCHANGED <<chatParams, dhPublicKeys, userPublicKey, ccCreated, lastInit,
                   lastComplete, completed, hasInitiated>>
    /\ ExchangeFrame

\* CreateChat that saves its pair whether or not the chat has one
CreateChatParamsAlways ==
    /\ ccPc = "params"
    /\ chatParams' = GetGlobalDHParams(ccCreated)
    /\ ccPc' = "check1"
    /\ UNCHANGED <<chatStatus, dhPublicKeys, userPublicKey, ccCreated, lastInit,
                   lastComplete, completed, hasInitiated>>
    /\ ExchangeFrame

\* CreateChat: GetDHParameters and, when there are none, SaveDHParameters of
\* the pair that GetGlobalDHParams gave this call
CreateChatParams ==
    /\ ccPc = "params"
    /\ chatParams' = IF chatParams = 0 THEN GetGlobalDHParams(ccCreated) ELSE chatParams
    /\ ccPc' = "check1"
    /\ UNCHANGED <<chatStatus, dhPublicKeys, userPublicKey, ccCreated, lastInit,
                   lastComplete, completed, hasInitiated>>
    /\ ExchangeFrame

\* CreateChat: for user n with an account key, existing := GetDHPublicKey
CreateChatCheckKey(n) ==
    /\ ccPc = IF n = 1 THEN "check1" ELSE "check2"
    /\ IF userPublicKey[n] # NilBytes /\ dhPublicKeys[n] = NilBytes
       THEN /\ ccPc' = IF n = 1 THEN "save1" ELSE "save2"
            /\ ccCreated' = ccCreated
       ELSE /\ ccPc' = IF n = 1 THEN "check2" ELSE "idle"
            /\ ccCreated' = (ccCreated \/ n = 2)
    /\ UNCHANGED <<chatStatus, chatParams, dhPublicKeys, userPublicKey, lastInit,
                   lastComplete, completed, hasInitiated>>
    /\ ExchangeFrame

\* CreateChat: SaveDHPublicKey(chatID, user n, user.PublicKey) after existing
\* was nil
CreateChatSaveKey(n) ==
    /\ ccPc = IF n = 1 THEN "save1" ELSE "save2"
    /\ dhPublicKeys' = [dhPublicKeys EXCEPT ![n] = userPublicKey[n]]
    /\ ccPc' = IF n = 1 THEN "check2" ELSE "idle"
    /\ ccCreated' = (ccCreated \/ n = 2)
    /\ UNCHANGED <<chatStatus, chatParams, userPublicKey, lastInit, lastComplete,
                   completed, hasInitiated>>
    /\ ExchangeFrame

\* CloseChat by a participant: the chat row stays, with status closed
CloseChat ==
    /\ chatStatus = "active"
    /\ chatStatus' = "closed"
    /\ UNCHANGED <<chatParams, dhPublicKeys, userPublicKey, ccPc, ccCreated, lastInit,
                   lastComplete, completed, hasInitiated>>
    /\ ExchangeFrame

\* InitiateDHExchange(chatID, u) with the counterparty entry of the result
\* given: the call's checks and what is recorded of the call
InitiateReturning(u, other) ==
    /\ lastInit' =
          [called |-> TRUE, user |-> u,
           err |-> IF chatStatus = "none" THEN "chat not found"
                   ELSE IF u \notin ChatUsers THEN "user not in chat"
                   ELSE IF chatParams = 0 THEN "DH parameters not found for this chat"
                   ELSE "",
           params |-> (chatStatus # "none" /\ u \in ChatUsers /\ chatParams # 0),
           pg |-> IF chatStatus # "none" /\ u \in ChatUsers THEN chatParams ELSE 0,
           other |-> IF chatStatus # "none" /\ u \in ChatUsers /\ chatParams # 0
                     THEN other ELSE Absent,
           second |-> (u \in ChatUsers /\ hasInitiated[otherUserID(u)] /\ ~hasInitiated[u]),
           peerDone |-> IF u \in ChatUsers THEN completed[otherUserID(u)] ELSE NilBytes,
           peerStored |-> IF u \in ChatUsers THEN dhPublicKeys[otherUserID(u)] ELSE NilBytes,
           created |-> ccCreated]
    /\ hasInitiated' = IF lastInit'.err = ""
                        THEN [hasInitiated EXCEPT ![u] = TRUE]
                        ELSE hasInitiated
    /\ UNCHANGED <<chatStatus, chatParams, dhPublicKeys, userPublicKey, ccPc, ccCreated,
                   lastComplete, completed>>
    /\ ExchangeFrame

\* InitiateDHExchange that never adds other_user_public_key
InitiateDHExchangeNoPeerKey(u) == InitiateReturning(u, Absent)

\* InitiateDHExchange(chatID, u): p, g and, when GetDHPublicKey finds a row of
\* the other user, other_user_public_key in hex
InitiateDHExchange(u) ==
    InitiateReturning(u, IF u \in ChatUsers /\ dhPublicKeys[otherUserID(u)] # NilBytes
                         THEN HexEncodeToString(dhPublicKeys[otherUserID(u)])
                         ELSE Absent)

\* StoreDHPublicKey without the test that the user is in the chat
StoreDHPublicKeyAnyUser(u, publicKeyHex) ==
    /\ lastComplete' =
          [called |-> TRUE, user |-> u, hex |-> publicKeyHex,
           err |-> IF chatStatus = "none" THEN "chat not found"
                   ELSE HexDecodeString(publicKeyHex).err,
           event |-> IF chatStatus # "none" /\ HexDecodeString(publicKeyHex).err = ""
                     THEN (IF u = 1 THEN 2 ELSE 1) ELSE 0]
    /\ IF lastComplete'.err = ""
       THEN /\ dhPublicKeys' = [dhPublicKeys EXCEPT ![u] = HexDecodeString(publicKeyHex).out]
            /\ completed' = [completed EXCEPT ![u] = HexDecodeString(publicKeyHex).out]
       ELSE UNCHANGED <<dhPublicKeys, completed>>
    /\ UNCHANGED <<chatStatus, chatParams, userPublicKey, ccPc, ccCreated, lastInit,
                   hasInitiated>>
    /\ ExchangeFrame

\* StoreDHPublicKey(chatID, u, publicKeyHex): checks, hex.DecodeString, then
\* the upsert of SaveDHPublicKey and the dh_public_key_received event for the
\* other participant
StoreDHPublicKey(u, publicKeyHex) ==
    /\ lastComplete' =
          [called |-> TRUE, user |-> u, hex |-> publicKeyHex,
           err |-> IF chatStatus = "none" THEN "chat not found"
                   ELSE IF u \notin ChatUsers THEN "user not in chat"
                   ELSE HexDecodeString(publicKeyHex).err,
           event |-> IF chatStatus # "none" /\ u \in ChatUsers
                        /\ HexDecodeString(publicKeyHex).err = ""
                     THEN (IF u = 1 THEN 2 ELSE 1) ELSE 0]
    /\ IF lastComplete'.err = ""
       THEN /\ dhPublicKeys' = [dhPublicKeys EXCEPT ![u] = HexDecodeString(publicKeyHex).out]
            /\ completed' = [completed EXCEPT ![u] = HexDecodeString(publicKeyHex).out]
       ELSE UNCHANGED <<dhPublicKeys, completed>>
    /\ UNCHANGED <<chatStatus, chatParams, userPublicKey, ccPc, ccCreated, lastInit,
                   hasInitiated>>
    /\ ExchangeFrame

\* CompleteDHExchange(chatID, u, clientPublicKeyHex)
CompleteDHExchange(u) ==
    \E clientPublicKeyHex \in HexInputs : StoreDHPublicKey(u, clientPublicKeyHex)

ExchangeNext ==
    \/ CreateChatOpen
    \/ CreateChatParams
    \/ \E n \in ChatUsers : CreateChatCheckKey(n) \/ CreateChatSaveKey(n)
    \/ CloseChat
    \/ \E u \in ExchangeCallers : InitiateDHExchange(u) \/ CompleteDHExchange(u)

SpecExchange == ExchangeInit /\ [][ExchangeNext]_vars

(***************************************************************************)
(* Padders called by two goroutines on one shared slice                    *)
(***************************************************************************)
AliasCallers == {1, 2}

AliasBlockSizes == {2, 4}

\* append(data, padding...) where data is the first n bytes of buf and
\* padded is data followed by the padding: the bytes go into buf when the
\* capacity suffices, into a new array otherwise
GoAppend(buf, padded) ==
    IF Len(padded) <= Len(buf)
    THEN [buf |-> [i \in 1..Len(buf) |-> IF i <= Len(padded) THEN padded[i] ELSE buf[i]],
          slice |-> [called |-> TRUE, err |-> "", shared |-> TRUE, len |-> Len(padded),
                     fresh |-> <<>>],
          bytes |-> padded]
    ELSE [buf |-> buf,
          slice |-> [called |-> TRUE, err |-> "", shared |-> FALSE, len |-> Len(padded),
                     fresh |-> padded],
          bytes |-> padded]

\* data[:k] returned by Unpad: a slice of the argument's array, or the error
GoReslice(buf, r) ==
    [buf |-> buf,
     slice |-> [called |-> TRUE, err |-> r.err, shared |-> r.err = "", len |-> Len(r.out),
                fresh |-> <<>>],
     bytes |-> r.out]

\* the bytes a caller reads from the slice it was returned
SliceBytes(c) ==
    IF alRes[c].shared THEN SubSeq(alBuf, 1, alRes[c].len) ELSE alRes[c].fresh

AliasFrame == UNCHANGED <<rc6Vars, padVars, dhVars, modeVars, cmpVars, lkVars, ggVars, xVars, pgVars, spVars, chVars, hubVars, ctVars, wsVars>>

AliasInit ==
    /\ \E data \in SeqsUpTo({1, 2}, 2), spare \in 0..MaxSpare :
           /\ alBuf = data \o [i \in 1..spare |-> 170]
           /\ alLen = Len(data)
    /\ alBuf0 = alBuf
    /\ alOp \in [AliasCallers -> {"Pad", "Unpad"}]
    /\ alName \in [AliasCallers -> PaddingNames]
    /\ alBS \in [AliasCallers -> AliasBlockSizes]
    /\ alRes = [c \in AliasCallers |-> NoSlice]
    /\ alFirst = [c \in AliasCallers |-> <<>>]
    /\ IdleRC6
    /\ IdlePad
    /\ IdleDH
    /\ IdleModes
    /\ IdleCmp
    /\ IdleLookup
    /\ IdleGlobals
    /\ IdleExchange
    /\ IdlePrimeGen
    /\ IdleStdPrime
    /\ IdleChat
    /\ IdleHub
    /\ IdleContact
    /\ IdleClient

\* what a call leaves behind: the array, the returned slice and its bytes
AliasStore(c, r) ==
    /\ alBuf' = r.buf
    /\ alRes' = [alRes EXCEPT ![c] = r.slice]
    /\ alFirst' = [alFirst EXCEPT ![c] = r.bytes]
    /\ UNCHANGED <<alBuf0, alLen, alOp, alName, alBS>>
    /\ AliasFrame

\* padder.Pad(data, blockSize) by caller c
AliasPad(c) ==
    /\ alOp[c] = "Pad"
    /\ ~alRes[c].called
    /\ \E seed \in 0..MaxRandSeed :
           AliasStore(c, GoAppend(alBuf, Pad(alName[c], SubSeq(alBuf, 1, alLen), alBS[c],
                                             GenBytes(alBS[c], seed))))

\* padder.Unpad(data) by caller c
AliasUnpad(c) ==
    /\ alOp[c] = "Unpad"
    /\ ~alRes[c].called
    /\ AliasStore(c, GoReslice(alBuf, Unpad(alName[c], SubSeq(alBuf, 1, alLen))))

AliasNext == \E c \in AliasCallers : AliasPad(c) \/ AliasUnpad(c)

SpecAlias == AliasInit /\ [][AliasNext]_vars

(***************************************************************************)
(* NewDiffieHellman step by step: the retry loop of generateSafePrime      *)
(***************************************************************************)
\* n is prime (what ProbablyPrime decides exactly for small n)
IsPrime(n) == n >= 2 /\ \A d \in 2..(n - 1) : d * d > n \/ n % d # 0

\* rand.Prime(rand.Reader, bits): the primes of exactly that bit length
RandPrimes(bits) == {p \in (2 ^ (bits - 1))..(2 ^ bits - 1) : IsPrime(p)}

\* sizes tried: 1 (rand.Prime refuses it), sizes without a precomputed
\* prime, and the two precomputed ones
PrimeBitSizes == 1..MaxGenBits \cup StandardBits

PrimeGenFrame ==
    UNCHANGED <<rc6Vars, padVars, dhVars, modeVars, cmpVars, lkVars, ggVars, xVars, alVars,
                spVars, chVars, hubVars, ctVars, wsVars>>

PrimeGenInit ==
    /\ pgBits \in PrimeBitSizes
    /\ pgPc = "call"
    /\ pgCand = 0
    /\ pgTries = 0
    /\ pgRet = NoDH
    /\ IdleRC6
    /\ IdlePad
    /\ IdleDH
    /\ IdleModes
    /\ IdleCmp
    /\ IdleLookup
    /\ IdleGlobals
    /\ IdleExchange
    /\ IdleAlias
    /\ IdleStdPrime
    /\ IdleChat
    /\ IdleHub
    /\ IdleContact
    /\ IdleClient

\* NewDiffieHellman(primeBits) with a precomputed prime: returns at once
NewDHStandard ==
    /\ pgPc = "call"
    /\ pgBits \in StandardBits
    /\ pgRet' = [p |-> StandardPrimes(pgBits), g |-> 2, err |-> ""]
    /\ pgPc' = "returned"
    /\ UNCHANGED <<pgBits, pgCand, pgTries>>
    /\ PrimeGenFrame

\* NewDiffieHellman(primeBits) without a precomputed prime: generateSafePrime
NewDHGenerate ==
    /\ pgPc = "call"
    /\ pgBits \notin StandardBits
    /\ pgPc' = "loop"
    /\ UNCHANGED <<pgBits, pgCand, pgTries, pgRet>>
    /\ PrimeGenFrame

\* one pass of the for loop when rand.Prime fails: the error is returned
SafePrimeError ==
    /\ pgPc = "loop"
    /\ pgBits < 2
    /\ pgRet' = [p |-> <<>>, g |-> 0, err |-> "crypto/rand: prime size must be at least 2-bit"]
    /\ pgPc' = "failed"
    /\ UNCHANGED <<pgBits, pgCand, pgTries>>
    /\ PrimeGenFrame

\* one pass of the for loop: a candidate p, returned when (p-1)/2 is prime,
\* dropped otherwise
SafePrimeCandidate ==
    /\ pgPc = "loop"
    /\ pgBits >= 2
    /\ \E p \in RandPrimes(pgBits) :
           /\ pgCand' = p
           /\ IF IsPrime((p - 1) \div 2)
              THEN /\ pgRet' = [p |-> <<"rand.Prime", pgBits, p>>, g |-> 2, err |-> ""]
                   /\ pgPc' = "returned"
                   /\ pgTries' = pgTries
              ELSE /\ pgTries' = IF pgTries < MaxTries THEN pgTries + 1 ELSE pgTries
                   /\ UNCHANGED <<pgRet, pgPc>>
    /\ UNCHANGED pgBits
    /\ PrimeGenFrame

PrimeGenNext == NewDHStandard \/ NewDHGenerate \/ SafePrimeError \/ SafePrimeCandidate

SpecPrimeGen == PrimeGenInit /\ [][PrimeGenNext]_vars

\* the call keeps running: a step that can be taken is eventually taken
SpecPrimeGenFair == SpecPrimeGen /\ WF_vars(PrimeGenNext)

(***************************************************************************)
(* The precomputed primes of NewDiffieHellman                              *)
(***************************************************************************)
\* StandardPrimes["2048"], digit by digit
StandardPrime2048 ==
    <<
       3, 2, 3, 1, 7, 0, 0, 6, 0, 7, 1, 3, 1, 1, 0, 0, 7, 3, 0, 0, 7, 1, 4, 8,
       7, 6, 6, 8, 8, 6, 6, 9, 9, 5, 1, 9, 6, 0, 4, 4, 4, 1, 0, 2, 6, 6, 9, 7,
       1, 5, 4, 8, 4, 0, 3, 2, 4, 7, 6, 7, 1, 8, 6, 4, 2, 2, 0, 8, 0, 7, 7, 9,
       2, 7, 2, 7, 0, 9, 1, 9, 6, 7, 5, 7, 2, 6, 1, 8, 3, 4, 8, 0, 3, 8, 1, 6,
       5, 5, 6, 6, 1, 2, 4, 5, 3, 4, 3, 2, 9, 3, 3, 9, 6, 3, 7, 4, 2, 9, 7, 8,
       6, 5, 1, 4, 5, 2, 8, 7, 0, 5, 1, 3, 8, 5, 9, 3, 1, 6, 7, 4, 7, 6, 4, 6,
       0, 4, 2, 8, 3, 8, 3, 1, 2, 6, 8, 4, 0, 2, 4, 9, 2, 8, 4, 7, 4, 3, 0, 6,
       3, 9, 4, 7, 4, 1, 2, 4, 3, 7, 7, 7, 6, 7, 8, 9, 3, 4, 2, 4, 8, 6, 5, 4,
       8, 5, 2, 7, 6, 3, 0, 2, 2, 1, 9, 6, 0, 1, 2, 4, 6, 0, 9, 4, 1, 1, 9, 4,
       5, 3, 0, 8, 2, 9, 5, 2, 0, 8, 5, 0, 0, 5, 7, 6, 8, 8, 3, 8, 1, 5, 0, 6,
       8, 2, 3, 4, 2, 4, 6, 2, 8, 8, 1, 4, 7, 3, 9, 1, 3, 1, 1, 0, 5, 4, 0, 8,
       2, 7, 2, 3, 7, 1, 6, 3, 3, 5, 0, 5, 1, 0, 6, 8, 4, 5, 8, 6, 2, 9, 8, 2,
       3, 9, 9, 4, 7, 6, 7, 1, 3, 1, 2, 3, 0, 1, 7, 5, 1, 7, 5, 1
    >>

\* StandardPrimes["1024"], digit by digit
StandardPrime1024 ==
    <<
       1, 7, 9, 7, 6, 9, 3, 1, 3, 4, 8, 6, 2, 3, 1, 5, 9, 0, 7, 7, 2, 9, 3, 0,
       5, 1, 9, 4, 6, 6, 3, 0, 2, 7, 4, 8, 5, 6, 7, 6, 0, 3, 8, 9, 5, 2, 2, 8,
       4, 9, 9, 8, 7, 3, 6, 3, 6, 1, 8, 1, 2, 5, 7, 2, 0, 6, 4, 2, 0, 9, 6, 9,
       0, 3, 4, 8, 7, 1, 8, 6, 2, 4, 0, 8, 8, 9, 4, 5, 4, 7, 5, 0, 3, 8, 8, 5,
       6, 2, 6, 9, 5, 5, 9, 6, 1, 5, 6, 5, 8, 6, 7, 7, 8, 0, 6, 6, 7, 6, 2, 2,
       6, 6, 9, 4, 4, 7, 8, 6, 2, 6, 4, 5, 1, 4, 1, 0, 4, 2, 0, 5, 0, 6, 5, 3,
       0, 1, 7, 3, 6, 2, 2, 7, 8, 1, 9, 0, 3, 3, 7, 9, 9, 3, 5, 2, 9, 2, 6, 0,
       8, 6, 9, 0, 3, 3, 4, 0, 0, 2, 9, 3, 5, 1, 3, 2, 6, 4, 1, 3, 5, 9, 4, 0,
       7, 3, 6, 5, 5, 3, 2, 6, 3, 7, 4, 7, 2, 6, 4, 3, 5, 5, 0, 7, 4, 2, 6, 5,
       4, 2, 5, 5, 8, 4, 7, 8, 8, 5, 2, 9, 3, 3, 1, 6, 3, 8, 8, 1, 3, 9, 1, 7,
       5, 7, 1, 7, 9, 3, 5, 3, 3, 4, 5, 7, 6, 4, 4, 5, 4, 7, 1, 1, 1, 3, 9, 2,
       3, 9, 1, 7, 5, 6, 8, 0, 3, 4, 9, 8, 6, 9, 3, 7, 0, 8, 6, 5, 7, 3, 6, 1,
       3, 3, 1, 2, 3, 0, 4, 3, 0, 6, 2, 8, 7, 1, 1, 6, 7, 2, 8, 3, 5
    >>

\* p.SetString(StandardPrimes[fmt.Sprintf("%d", primeBits)], 10)
StandardPrimeDigits(primeBits) ==
    IF primeBits = 2048 THEN StandardPrime2048 ELSE StandardPrime1024

Square(x) == x * x

RECURSIVE PowMod10(_, _)
\* 10^k mod m
PowMod10(k, m) ==
    IF k = 0 THEN 1 % m
    ELSE (Square(PowMod10(k \div 2, m)) * (IF k % 2 = 1 THEN 10 ELSE 1)) % m

RECURSIVE DecModRange(_, _, _, _)
\* the number written by digits lo..hi of d, mod m
DecModRange(d, lo, hi, m) ==
    IF lo = hi THEN d[lo] % m
    ELSE (DecModRange(d, lo, (lo + hi) \div 2, m) * PowMod10(hi - (lo + hi) \div 2, m)
            + DecModRange(d, (lo + hi) \div 2 + 1, hi, m)) % m

\* smallest divisor of the number d in 2..MaxTrialDivisor, 0 when there is none
SmallFactor(d) ==
    IF \E m \in 2..MaxTrialDivisor : DecModRange(d, 1, Len(d), m) = 0
    THEN CHOOSE m \in 2..MaxTrialDivisor :
            /\ DecModRange(d, 1, Len(d), m) = 0
            /\ \A k \in 2..(m - 1) : DecModRange(d, 1, Len(d), k) # 0
    ELSE 0

\* the number d shifted right by one bit (<<>> is 0)
Halve(d) ==
    IF d[1] = 1
    THEN [i \in 1..(Len(d) - 1) |-> (10 * (d[i] % 2) + d[i + 1]) \div 2]
    ELSE [i \in 1..Len(d) |-> (10 * (IF i = 1 THEN 0 ELSE d[i - 1] % 2) + d[i]) \div 2]

StdPrimeFrame ==
    UNCHANGED <<rc6Vars, padVars, dhVars, modeVars, cmpVars, lkVars, ggVars, xVars, alVars,
                pgVars, chVars, hubVars, ctVars, wsVars>>

StdPrimeInit ==
    /\ spBits \in StandardBits
    /\ spPc = "call"
    /\ spP = <<>>
    /\ spG = 0
    /\ spFactor = 0
    /\ spN = <<>>
    /\ spLen = 0
    /\ IdleRC6
    /\ IdlePad
    /\ IdleDH
    /\ IdleModes
    /\ IdleCmp
    /\ IdleLookup
    /\ IdleGlobals
    /\ IdleExchange
    /\ IdleAlias
    /\ IdlePrimeGen
    /\ IdleChat
    /\ IdleHub
    /\ IdleContact
    /\ IdleClient

\* NewDiffieHellman(primeBits) for a size with an entry in StandardPrimes
NewDHPrecomputed ==
    /\ spPc = "call"
    /\ spP' = StandardPrimeDigits(spBits)
    /\ spG' = 2
    /\ spFactor' = SmallFactor(spP')
    /\ spN' = spP'
    /\ spPc' = "measure"
    /\ UNCHANGED <<spBits, spLen>>
    /\ StdPrimeFrame

\* p.BitLen(), one bit at a time
BitLenStep ==
    /\ spPc = "measure"
    /\ spN # <<>>
    /\ spN' = Halve(spN)
    /\ spLen' = spLen + 1
    /\ UNCHANGED <<spBits, spPc, spP, spG, spFactor>>
    /\ StdPrimeFrame

\* every bit is counted
BitLenDone ==
    /\ spPc = "measure"
    /\ spN = <<>>
    /\ spPc' = "done"
    /\ UNCHANGED <<spBits, spP, spG, spFactor, spN, spLen>>
    /\ StdPrimeFrame

StdPrimeNext == NewDHPrecomputed \/ BitLenStep \/ BitLenDone

SpecStdPrime == StdPrimeInit /\ [][StdPrimeNext]_vars

(***************************************************************************)
(* Sending messages to a chat and closing it                               *)
(***************************************************************************)
\* users 1 and 2 are the participants of chat 1, user 3 is registered too
ChatSenders == {1, 2, 3}

\* chat ids of requests: chat 1 exists, chat 2 does not
ChatIDs == {1, 2}

\* ciphertext texts of requests, in hex: two valid ones and an invalid one
CiphertextInputs == {<<"0", "a">>, <<"f", "f">>, <<"0", "g">>}

\* store.GetChat(chatID): the row, or nil
GetChat(chatID) ==
    IF chatID = 1 THEN [nil |-> FALSE, User1ID |-> 1, User2ID |-> 2, Status |-> chStatus]
    ELSE [nil |-> TRUE, User1ID |-> 0, User2ID |-> 0, Status |-> ""]

\* ProcessMessage(msg) when SaveMessage succeeds (saved) or fails: its error,
\* the row it inserted and the events it handed to the broadcast handler
ProcessMessage(chatID, senderID, ciphertext, saved) ==
    IF GetChat(chatID).nil
    THEN [err |-> "", rows |-> <<>>, events |-> {}]
    ELSE IF ~saved
         THEN [err |-> "pq: insert failed", rows |-> <<>>, events |-> {}]
         ELSE [err |-> "",
               rows |-> <<[sender |-> senderID, ciphertext |-> ciphertext]>>,
               events |-> {[type |-> "message_received",
                            user |-> IF GetChat(chatID).User1ID = senderID
                                     THEN GetChat(chatID).User2ID
                                     ELSE GetChat(chatID).User1ID],
                           [type |-> "message_received", user |-> senderID]}]

ChatFrame ==
    UNCHANGED <<rc6Vars, padVars, dhVars, modeVars, cmpVars, lkVars, ggVars, xVars, alVars,
                pgVars, spVars, hubVars, ctVars, wsVars>>

\* chat 1 has been created by one of its participants
ChatInit ==
    /\ chCreator \in {1, 2}
    /\ chStatus = "active"
    /\ chMessages = <<>>
    /\ chLast = NoRequest
    /\ IdleRC6
    /\ IdlePad
    /\ IdleDH
    /\ IdleModes
    /\ IdleCmp
    /\ IdleLookup
    /\ IdleGlobals
    /\ IdleExchange
    /\ IdleAlias
    /\ IdlePrimeGen
    /\ IdleStdPrime
    /\ IdleHub
    /\ IdleContact
    /\ IdleClient

\* the response to a send request whose ProcessMessage returned r
SendResponse(u, chatID, r) ==
    /\ chMessages' = chMessages \o r.rows
    /\ chLast' = [op |-> "send", user |-> u, chat |-> chatID, err |-> r.err,
                  http |-> IF r.err = "" THEN 200 ELSE 500, success |-> r.err = "",
                  events |-> r.events, msgsBefore |-> chMessages, statusBefore |-> chStatus]
    /\ UNCHANGED <<chCreator, chStatus>>
    /\ ChatFrame

\* handleSendMessage for the authenticated user u
handleSendMessage(u) ==
    /\ Len(chMessages) < MaxChatMsgs
    /\ \E chatID \in ChatIDs, hex \in CiphertextInputs, saved \in BOOLEAN :
           IF HexDecodeString(hex).err # ""
           THEN /\ chLast' = [op |-> "send", user |-> u, chat |-> chatID,
                              err |-> "invalid ciphertext hex", http |-> 400,
                              success |-> FALSE, events |-> {}, msgsBefore |-> chMessages,
                              statusBefore |-> chStatus]
                /\ UNCHANGED <<chCreator, chStatus, chMessages>>
                /\ ChatFrame
           ELSE SendResponse(u, chatID,
                             ProcessMessage(chatID, u, HexDecodeString(hex).out, saved))

\* CloseChat(chatID, userID) of the service and the chat_closed event of
\* handleCloseChat
CloseChatRequest(u) ==
    \E chatID \in ChatIDs :
        /\ IF GetChat(chatID).nil
           THEN /\ chLast' = [op |-> "close", user |-> u, chat |-> chatID,
                              err |-> "chat not found", http |-> 200, success |-> FALSE,
                              events |-> {}, msgsBefore |-> chMessages,
                              statusBefore |-> chStatus]
                /\ UNCHANGED <<chStatus, chMessages>>
           ELSE IF GetChat(chatID).User1ID # u /\ GetChat(chatID).User2ID # u
           THEN /\ chLast' = [op |-> "close", user |-> u, chat |-> chatID,
                              err |-> "user not in chat", http |-> 200, success |-> FALSE,
                              events |-> {}, msgsBefore |-> chMessages,
                              statusBefore |-> chStatus]
                /\ UNCHANGED <<chStatus, chMessages>>
           ELSE \E deleted \in BOOLEAN, closed \in BOOLEAN :
                /\ chMessages' = IF deleted THEN <<>> ELSE chMessages
                /\ chStatus' = IF closed THEN "closed" ELSE chStatus
                /\ chLast' = [op |-> "close", user |-> u, chat |-> chatID,
                              err |-> IF closed THEN "" ELSE "pq: update failed",
                              http |-> 200, success |-> closed,
                              events |-> IF closed
                                         THEN {[type |-> "chat_closed",
                                                user |-> IF GetChat(chatID).User1ID = u
                                                         THEN GetChat(chatID).User2ID
                                                         ELSE GetChat(chatID).User1ID]}
                                         ELSE {},
                              msgsBefore |-> chMessages, statusBefore |-> chStatus]
        /\ UNCHANGED chCreator
        /\ ChatFrame

\* CreateChat by a participant on the closed chat: ReopenChat
ReopenChatRequest(u) ==
    /\ u \in {1, 2}
    /\ chStatus = "closed"
    /\ chStatus' = "active"
    /\ chLast' = [op |-> "reopen", user |-> u, chat |-> 1, err |-> "", http |-> 200,
                  success |-> TRUE, events |-> {}, msgsBefore |-> chMessages,
                  statusBefore |-> chStatus]
    /\ UNCHANGED <<chCreator, chMessages>>
    /\ ChatFrame

ChatNext ==
    \E u \in ChatSenders :
        handleSendMessage(u) \/ CloseChatRequest(u) \/ ReopenChatRequest(u)

SpecChat == ChatInit /\ [][ChatNext]_vars

(***************************************************************************)
(* The WebSocket hub: Broadcast, runHub, readPump and writePump            *)
(***************************************************************************)
\* claims.UserID of each client connection
ClientUser == <<1, 2>>

\* UserID of an event: 0 addresses every client
EventUsers == {0, 1}

HubFrame ==
    UNCHANGED <<rc6Vars, padVars, dhVars, modeVars, cmpVars, lkVars, ggVars, xVars, alVars,
                pgVars, spVars, chVars, ctVars, wsVars>>

HubInit ==
    /\ IdleHub
    /\ IdleRC6
    /\ IdlePad
    /\ IdleDH
    /\ IdleModes
    /\ IdleCmp
    /\ IdleLookup
    /\ IdleGlobals
    /\ IdleExchange
    /\ IdleAlias
    /\ IdlePrimeGen
    /\ IdleStdPrime
    /\ IdleChat
    /\ IdleContact
    /\ IdleClient

\* handleWebSocket up to its send on s.register
handleWebSocket(c) ==
    /\ hubPc[c] = "idle"
    /\ hubPc' = [hubPc EXCEPT ![c] = "registering"]
    /\ UNCHANGED <<hubQueue, hubClients, hubSend, hubClosed, hubWp, hubEvict, hubNext,
                   hubWaiting, hubDropped, hubProcessed, hubPanic>>
    /\ HubFrame

\* runHub, case client := <-s.register; handleWebSocket then starts the pumps
runHubRegister(c) ==
    /\ hubPc[c] = "registering"
    /\ hubClients' = hubClients \cup {c}
    /\ hubPc' = [hubPc EXCEPT ![c] = "running"]
    /\ hubWp' = [hubWp EXCEPT ![c] = "run"]
    /\ UNCHANGED <<hubQueue, hubSend, hubClosed, hubEvict, hubNext, hubWaiting, hubDropped,
                   hubProcessed, hubPanic>>
    /\ HubFrame

\* readPump: ReadJSON fails, the deferred function sends on s.unregister
readPump(c) ==
    /\ hubPc[c] = "running"
    /\ hubPc' = [hubPc EXCEPT ![c] = "leaving"]
    /\ UNCHANGED <<hubQueue, hubClients, hubSend, hubClosed, hubWp, hubEvict, hubNext,
                   hubWaiting, hubDropped, hubProcessed, hubPanic>>
    /\ HubFrame

\* the unregister case without its membership test
unregisterUnchecked(c) ==
    /\ hubClients' = hubClients \ {c}
    /\ hubClosed' = [hubClosed EXCEPT ![c] = @ + 1]

\* runHub, case client := <-s.unregister: delete and close, once
unregister(c) ==
    IF c \in hubClients
    THEN /\ hubClients' = hubClients \ {c}
         /\ hubClosed' = [hubClosed EXCEPT ![c] = @ + 1]
    ELSE UNCHANGED <<hubClients, hubClosed>>

\* runHub receives the unregister request of a readPump
runHubUnregisterReader(c) ==
    /\ hubPc[c] = "leaving"
    /\ unregister(c)
    /\ hubPc' = [hubPc EXCEPT ![c] = "done"]
    /\ UNCHANGED <<hubQueue, hubSend, hubWp, hubEvict, hubNext, hubWaiting, hubDropped,
                   hubProcessed, hubPanic>>
    /\ HubFrame

\* runHub receives the unregister request of an eviction goroutine
runHubUnregisterEvicted(c) ==
    /\ hubEvict[c] > 0
    /\ unregister(c)
    /\ hubEvict' = [hubEvict EXCEPT ![c] = @ - 1]
    /\ UNCHANGED <<hubQueue, hubSend, hubPc, hubWp, hubNext, hubWaiting, hubDropped,
                   hubProcessed, hubPanic>>
    /\ HubFrame

\* the clients an event is sent to
Targets(e) == {c \in hubClients : e.user = 0 \/ ClientUser[c] = e.user}

\* runHub, case message := <-s.broadcast: a non-blocking send to each target,
\* an eviction goroutine for each target whose buffer is full
runHubBroadcast ==
    /\ hubQueue # <<>>
    /\ \A c \in Targets(Head(hubQueue)) :
           Len(hubSend[c]) = SendCap => hubEvict[c] < MaxEvict
    /\ hubQueue' = Tail(hubQueue)
    /\ hubProcessed' = hubProcessed \cup {Head(hubQueue).id}
    /\ hubSend' = [c \in HubClients |->
                      IF c \in Targets(Head(hubQueue)) /\ hubClosed[c] = 0
                         /\ Len(hubSend[c]) < SendCap
                      THEN Append(hubSend[c], Head(hubQueue).id)
                      ELSE hubSend[c]]
    /\ hubEvict' = [c \in HubClients |->
                       IF c \in Targets(Head(hubQueue)) /\ hubClosed[c] = 0
                          /\ Len(hubSend[c]) = SendCap
                       THEN hubEvict[c] + 1
                       ELSE hubEvict[c]]
    /\ hubPanic' = (hubPanic \/ \E c \in Targets(Head(hubQueue)) : hubClosed[c] > 0)
    /\ UNCHANGED <<hubClients, hubClosed, hubPc, hubWp, hubNext, hubWaiting, hubDropped>>
    /\ HubFrame

\* writePump takes a message from c.send and writes it, or fails to write it
\* and returns
writePump(c) ==
    /\ hubWp[c] = "run"
    /\ hubSend[c] # <<>>
    /\ hubSend' = [hubSend EXCEPT ![c] = Tail(@)]
    /\ \E written \in BOOLEAN :
           hubWp' = [hubWp EXCEPT ![c] = IF written THEN "run" ELSE "stopped"]
    /\ UNCHANGED <<hubQueue, hubClients, hubClosed, hubPc, hubEvict, hubNext, hubWaiting,
                   hubDropped, hubProcessed, hubPanic>>
    /\ HubFrame

\* writePump finds c.send closed and empty, and returns
writePumpClosed(c) ==
    /\ hubWp[c] = "run"
    /\ hubSend[c] = <<>>
    /\ hubClosed[c] > 0
    /\ hubWp' = [hubWp EXCEPT ![c] = "stopped"]
    /\ UNCHANGED <<hubQueue, hubClients, hubSend, hubClosed, hubPc, hubEvict, hubNext,
                   hubWaiting, hubDropped, hubProcessed, hubPanic>>
    /\ HubFrame

\* Broadcast(msg): the select sends at once when the queue has a free slot,
\* and blocks otherwise
Broadcast(user) ==
    /\ hubNext < MaxEvents
    /\ hubNext' = hubNext + 1
    /\ IF Len(hubQueue) < BroadcastCap
       THEN /\ hubQueue' = Append(hubQueue, [id |-> hubNext + 1, user |-> user])
            /\ UNCHANGED hubWaiting
       ELSE /\ hubWaiting' = hubWaiting \cup {[id |-> hubNext + 1, user |-> user]}
            /\ UNCHANGED hubQueue
    /\ UNCHANGED <<hubClients, hubSend, hubClosed, hubPc, hubWp, hubEvict, hubDropped,
                   hubProcessed, hubPanic>>
    /\ HubFrame

\* a blocked Broadcast: case s.broadcast <- msg, once a slot is free
BroadcastQueued(e) ==
    /\ e \in hubWaiting
    /\ Len(hubQueue) < BroadcastCap
    /\ hubQueue' = Append(hubQueue, e)
    /\ hubWaiting' = hubWaiting \ {e}
    /\ UNCHANGED <<hubClients, hubSend, hubClosed, hubPc, hubWp, hubEvict, hubNext,
                   hubDropped, hubProcessed, hubPanic>>
    /\ HubFrame

\* a blocked Broadcast: case <-ctx.Done(), the queue was full for 100 ms
BroadcastTimeout(e) ==
    /\ e \in hubWaiting
    /\ Len(hubQueue) = BroadcastCap
    /\ hubWaiting' = hubWaiting \ {e}
    /\ hubDropped' = hubDropped \cup {e.id}
    /\ UNCHANGED <<hubQueue, hubClients, hubSend, hubClosed, hubPc, hubWp, hubEvict, hubNext,
                   hubProcessed, hubPanic>>
    /\ HubFrame

\* one iteration of runHub's select
runHub ==
    \/ \E c \in HubClients : runHubRegister(c)
    \/ \E c \in HubClients : runHubUnregisterReader(c)
    \/ \E c \in HubClients : runHubUnregisterEvicted(c)
    \/ runHubBroadcast

\* a step of a blocked Broadcast call
BroadcastBlocked == \E e \in hubWaiting : BroadcastQueued(e) \/ BroadcastTimeout(e)

HubNext ==
    \/ \E c \in HubClients : handleWebSocket(c)
    \/ \E c \in HubClients : readPump(c)
    \/ \E c \in HubClients : writePump(c)
    \/ \E c \in HubClients : writePumpClosed(c)
    \/ \E user \in EventUsers : Broadcast(user)
    \/ BroadcastBlocked
    \/ runHub

SpecHub == HubInit /\ [][HubNext]_vars

\* the hub goroutine and the blocked Broadcast calls keep being scheduled
SpecHubFair == SpecHub /\ WF_vars(runHub) /\ WF_vars(BroadcastBlocked)

(***************************************************************************)
(* Contact requests: add, accept, reject, remove                           *)
(***************************************************************************)
ContactUsers == {1, 2}

\* the action names a request can carry
ContactActions == {"add", "accept", "reject", "remove", "block"}

\* the accept case without the test of the requester
AcceptErrorAnyUser(contact, userID) ==
    IF contact = NoContact THEN "contact not found"
    ELSE IF contact.status # "pending" THEN "Contact request is not pending"
    ELSE ""

\* the accept case: the error it returns before UpdateContactStatus, or ""
AcceptError(contact, userID) ==
    IF contact = NoContact THEN "contact not found"
    ELSE IF contact.status # "pending" THEN "Contact request is not pending"
    ELSE IF contact.requester = userID
         THEN "You can only accept contact requests sent to you"
    ELSE ""

\* the reject and remove cases: the error they return before DeleteContact
RejectRemoveError(action, contact, userID) ==
    IF contact = NoContact THEN "contact not found"
    ELSE IF action = "reject" /\ contact.status # "pending"
         THEN "Can only reject pending contact requests"
    ELSE IF action = "reject" /\ contact.requester = userID
         THEN "You can only reject contact requests sent to you"
    ELSE ""

\* ProcessContactRequest up to its write: the error it returns, or ""
RequestError(action, contact, userID, contactID) ==
    IF userID = contactID THEN "cannot add yourself as contact"
    ELSE IF action = "add"
         THEN (IF contact # NoContact THEN "Contact already exists" ELSE "")
    ELSE IF action = "accept" THEN AcceptError(contact, userID)
    ELSE IF action \in {"reject", "remove"} THEN RejectRemoveError(action, contact, userID)
    ELSE "invalid action"

ContactFrame ==
    UNCHANGED <<rc6Vars, padVars, dhVars, modeVars, cmpVars, lkVars, ggVars, xVars, alVars,
                pgVars, spVars, chVars, hubVars, wsVars>>

ContactInit ==
    /\ ctRow = NoContact
    /\ ctNextId = 1
    /\ ctPc = [u \in ContactUsers |-> ContactIdle]
    /\ ctLast = [u \in ContactUsers |-> [action |-> "", success |-> FALSE, error |-> ""]]
    /\ ctAccept = NoAccept
    /\ IdleRC6
    /\ IdlePad
    /\ IdleDH
    /\ IdleModes
    /\ IdleCmp
    /\ IdleLookup
    /\ IdleGlobals
    /\ IdleExchange
    /\ IdleAlias
    /\ IdlePrimeGen
    /\ IdleStdPrime
    /\ IdleChat
    /\ IdleHub
    /\ IdleClient

\* ProcessContactRequest of user u, from its start to the return of an error
\* or to the point before its INSERT, UPDATE or DELETE
ContactRequestRead(u) ==
    /\ ctPc[u] = ContactIdle
    /\ \E action \in ContactActions, contactID \in ContactUsers :
           /\ action = "add" => ctNextId <= MaxContactRows
           /\ IF RequestError(action, ctRow, u, contactID) # ""
              THEN /\ ctLast' = [ctLast EXCEPT ![u] =
                                    [action |-> action, success |-> FALSE,
                                     error |-> RequestError(action, ctRow, u, contactID)]]
                   /\ UNCHANGED ctPc
              ELSE /\ ctPc' = [ctPc EXCEPT ![u] = [action |-> action, contact |-> ctRow]]
                   /\ UNCHANGED ctLast
    /\ UNCHANGED <<ctRow, ctNextId, ctAccept>>
    /\ ContactFrame

\* AddContact(u, other, "pending"): the INSERT, refused by UNIQUE(user1_id,
\* user2_id) when the pair has a row
ContactRequestAdd(u) ==
    /\ ctPc[u].action = "add"
    /\ ctNextId' = ctNextId + 1
    /\ IF ctRow = NoContact
       THEN /\ ctRow' = [id |-> ctNextId, requester |-> u, status |-> "pending"]
            /\ ctAccept' = NoAccept
            /\ ctLast' = [ctLast EXCEPT ![u] =
                             [action |-> "add", success |-> TRUE, error |-> ""]]
       ELSE /\ ctLast' = [ctLast EXCEPT ![u] =
                             [action |-> "add", success |-> FALSE,
                              error |-> "pq: duplicate key value"]]
            /\ UNCHANGED <<ctRow, ctAccept>>
    /\ ctPc' = [ctPc EXCEPT ![u] = ContactIdle]
    /\ ContactFrame

\* UpdateContactStatus(contact.ID, "accepted"): the UPDATE of the row with
\* the id that GetContact returned
ContactRequestAccept(u) ==
    /\ ctPc[u].action = "accept"
    /\ IF ctRow.id = ctPc[u].contact.id
       THEN /\ ctRow' = [ctRow EXCEPT !.status = "accepted"]
            /\ ctAccept' = [user |-> u, saw |-> ctPc[u].contact.status]
       ELSE UNCHANGED <<ctRow, ctAccept>>
    /\ ctLast' = [ctLast EXCEPT ![u] = [action |-> "accept", success |-> TRUE, error |-> ""]]
    /\ ctPc' = [ctPc EXCEPT ![u] = ContactIdle]
    /\ UNCHANGED ctNextId
    /\ ContactFrame

\* DeleteContact(contact.ID): the DELETE of the row with the id that
\* GetContact returned
ContactRequestDelete(u) ==
    /\ ctPc[u].action \in {"reject", "remove"}
    /\ IF ctRow.id = ctPc[u].contact.id
       THEN /\ ctRow' = NoContact
            /\ ctAccept' = NoAccept
       ELSE UNCHANGED <<ctRow, ctAccept>>
    /\ ctLast' = [ctLast EXCEPT ![u] =
                     [action |-> ctPc[u].action, success |-> TRUE, error |-> ""]]
    /\ ctPc' = [ctPc EXCEPT ![u] = ContactIdle]
    /\ UNCHANGED ctNextId
    /\ ContactFrame

ContactNext ==
    \E u \in ContactUsers :
        \/ ContactRequestRead(u)
        \/ ContactRequestAdd(u)
        \/ ContactRequestAccept(u)
        \/ ContactRequestDelete(u)

SpecContact == ContactInit /\ [][ContactNext]_vars

(***************************************************************************)
(* The client's wsService: connect, the socket events, disconnect          *)
(***************************************************************************)
MAX_RECONNECT_ATTEMPTS == 10

RECONNECT_DELAY == 1000

ClientFrame ==
    UNCHANGED <<rc6Vars, padVars, dhVars, modeVars, cmpVars, lkVars, ggVars, xVars, alVars,
                pgVars, spVars, chVars, hubVars, ctVars>>

ClientInit ==
    /\ IdleClient
    /\ IdleRC6
    /\ IdlePad
    /\ IdleDH
    /\ IdleModes
    /\ IdleCmp
    /\ IdleLookup
    /\ IdleGlobals
    /\ IdleExchange
    /\ IdleAlias
    /\ IdlePrimeGen
    /\ IdleStdPrime
    /\ IdleChat
    /\ IdleHub
    /\ IdleContact

\* the live sockets other than ws once ws is given another value
Unreferenced == IF ws = "null" THEN wsOthers ELSE [wsOthers EXCEPT ![ws] = @ + 1]

\* wsService.connect(token): ws = new WebSocket(...), whatever ws held
connect ==
    /\ wsCreated < MaxSockets
    /\ wsCreated' = wsCreated + 1
    /\ wsOthers' = Unreferenced
    /\ ws' = "connecting"
    /\ wsReopened' = (wsReopened \/ wsDisconnected')

\* the application calls wsService.connect
AppConnect ==
    /\ wsDisconnected' = FALSE
    /\ connect
    /\ UNCHANGED <<wsClosing, wsTimers, reconnectAttempts, wsSinceOpen, wsLastDelay>>
    /\ ClientFrame

\* a setTimeout callback of onclose runs: wsService.connect(token)
ReconnectTimer ==
    /\ wsTimers > 0
    /\ wsTimers' = wsTimers - 1
    /\ UNCHANGED wsDisconnected
    /\ connect
    /\ UNCHANGED <<wsClosing, reconnectAttempts, wsSinceOpen, wsLastDelay>>
    /\ ClientFrame

\* connection.onopen of the socket ws refers to or of another socket
onopen ==
    /\ \/ /\ ws = "connecting"
          /\ ws' = "open"
          /\ UNCHANGED wsOthers
       \/ /\ wsOthers.connecting > 0
          /\ wsOthers' = [connecting |-> wsOthers.connecting - 1, open |-> wsOthers.open + 1]
          /\ UNCHANGED ws
    /\ reconnectAttempts' = 0
    /\ wsSinceOpen' = 0
    /\ UNCHANGED <<wsClosing, wsTimers, wsCreated, wsLastDelay, wsDisconnected, wsReopened>>
    /\ ClientFrame

\* the body of connection.onclose: ws = null and the reconnect it schedules
oncloseBody ==
    /\ ws' = "null"
    /\ IF reconnectAttempts < MAX_RECONNECT_ATTEMPTS
       THEN /\ wsLastDelay' = RECONNECT_DELAY * Pow2(reconnectAttempts)
            /\ reconnectAttempts' = reconnectAttempts + 1
            /\ wsTimers' = wsTimers + 1
            /\ wsSinceOpen' = wsSinceOpen + 1
       ELSE UNCHANGED <<wsLastDelay, reconnectAttempts, wsTimers, wsSinceOpen>>

\* the close event of a live socket (the connection failed or was lost)
onclose ==
    /\ \/ /\ ws # "null"
          /\ UNCHANGED wsOthers
       \/ \E s \in {"connecting", "open"} :
             /\ wsOthers[s] > 0
             /\ wsOthers' = [Unreferenced EXCEPT ![s] = @ - 1]
    /\ oncloseBody
    /\ UNCHANGED <<wsClosing, wsCreated, wsDisconnected, wsReopened>>
    /\ ClientFrame

\* the close event of a socket that disconnect() closed
oncloseDisconnected ==
    /\ wsClosing > 0
    /\ wsClosing' = wsClosing - 1
    /\ wsOthers' = Unreferenced
    /\ oncloseBody
    /\ UNCHANGED <<wsCreated, wsDisconnected, wsReopened>>
    /\ ClientFrame

\* wsService.disconnect()
disconnect ==
    /\ IF ws # "null"
       THEN /\ wsClosing' = wsClosing + 1
            /\ ws' = "null"
            /\ reconnectAttempts' = 0
       ELSE UNCHANGED <<wsClosing, ws, reconnectAttempts>>
    /\ wsDisconnected' = TRUE
    /\ UNCHANGED <<wsOthers, wsTimers, wsCreated, wsSinceOpen, wsLastDelay, wsReopened>>
    /\ ClientFrame

ClientNext ==
    \/ AppConnect
    \/ ReconnectTimer
    \/ onopen
    \/ onclose
    \/ oncloseDisconnected
    \/ disconnect

SpecClient == ClientInit /\ [][ClientNext]_vars

(***************************************************************************)
(* Claims                                                                  *)
(***************************************************************************)
\* C2: for an RC6 instance built from a key of 16 to 32 bytes and any 16-byte
\* block b, Decrypt(Encrypt(b)) = b and Encrypt(Decrypt(b)) = b, with no error.
C2_RC6Inverse ==
    /\ (rc6Pc = "done" => rc6Out = rc6In)
    /\ (rc6Pc = "failed" =>
            \/ Len(rc6Key) < RC6MinKey
            \/ Len(rc6Key) > RC6MaxKey
            \/ Len(rc6In) # RC6BlockSize)

\* C2 witness: a 32-byte key, Decrypt first, and the block really changed
C2_Witness ==
    /\ rc6Pc = "done"
    /\ rc6Dir = "DE"
    /\ Len(rc6Key) = RC6MaxKey
    /\ rc6Mid # rc6In
    /\ rc6Out = rc6In

\* C8: PKCS7, ANSI_X923 and ISO_10126 with a block size of 1..255:
\* Unpad(Pad(data, blockSize)) returns exactly data and no error.
C8_LengthPaddersRoundTrip ==
    (padPc = "done" /\ padName \in {"PKCS7", "ANSI_X923", "ISO_10126"} /\ padBS \in 1..255)
        => (padRes.err = "" /\ padRes.out = padData)

\* C8 witness: block-aligned non-empty data went through ANSI X.923
C8_Witness ==
    /\ padPc = "done"
    /\ padName = "ANSI_X923"
    /\ padData # <<>>
    /\ Len(padData) % padBS = 0
    /\ padBS > 1
    /\ padRes.out = padData

\* C9: ZEROS Unpad returns its input without its trailing zero bytes and the
\* rest unchanged; so data that does not end in a zero byte (empty data
\* included) survives Pad then Unpad, for every block size.
C9_ZerosStripAndRoundTrip ==
    /\ (padName = "ZEROS" /\ padPc \in {"done", "raw"} /\ padPadded # <<>>) =>
          /\ padRes.err = ""
          /\ Len(padRes.out) <= Len(padPadded)
          /\ padRes.out = SubSeq(padPadded, 1, Len(padRes.out))
          /\ \A i \in (Len(padRes.out) + 1)..Len(padPadded) : padPadded[i] = 0
          /\ padRes.out = <<>> \/ padRes.out[Len(padRes.out)] # 0
    /\ (padName = "ZEROS" /\ padPc = "done"
            /\ (padData = <<>> \/ padData[Len(padData)] # 0)) =>
          (padRes.err = "" /\ padRes.out = padData)

\* C9 witness: data with an inner zero byte and a non-zero last byte came back
C9_Witness ==
    /\ padName = "ZEROS"
    /\ padPc = "done"
    /\ Len(padData) = 3
    /\ padData[2] = 0
    /\ padData[3] # 0
    /\ Len(padPadded) > Len(padData) + 1
    /\ padRes.out = padData

\* C10: the length of Pad(data, blockSize) is a positive multiple of
\* blockSize, greater than len(data) and at most len(data) + blockSize.
C10_PadLength ==
    padPc \in {"padded", "done"} =>
        /\ Len(padPadded) > 0
        /\ Len(padPadded) % padBS = 0
        /\ Len(padPadded) > Len(padData)
        /\ Len(padPadded) <= Len(padData) + padBS

\* C10 witness: data already a multiple of the block size got a whole block
C10_Witness ==
    /\ padPc = "padded"
    /\ padData # <<>>
    /\ Len(padData) % padBS = 0
    /\ Len(padPadded) = Len(padData) + padBS
    /\ padName = "ISO_10126"

\* party x called ComputeSharedSecret after both parties generated their keys
SecretFromPeerKey(x) ==
    /\ dhSecret[x].called
    /\ dhSecret[x].own # NilInt
    /\ dhSecret[x].peer # NilInt

\* C5: two instances that share (p, g) and each generated a private key
\* compute the same shared secret from each other's public key.
C5_SharedSecretSymmetric ==
    (SecretFromPeerKey("A") /\ SecretFromPeerKey("B")) =>
        /\ dhSecret["A"].err = ""
        /\ dhSecret["B"].err = ""
        /\ dhSecret["A"].out = dhSecret["B"].out

\* C5 witness: different private keys, a two-byte prime, both secrets computed
C5_Witness ==
    /\ SecretFromPeerKey("A")
    /\ SecretFromPeerKey("B")
    /\ dhA["A"] # dhA["B"]
    /\ dhPub["A"] # dhPub["B"]
    /\ dhP > 256
    /\ dhSecret["A"].out # <<>>

\* C6: the bytes GetPublicKey and ComputeSharedSecret return always have the
\* byte length of the prime p, left-padded with zero bytes.
C6_FixedLengthBytes ==
    \A x \in Parties :
        /\ dhPub[x] # NilInt => Len(GetPublicKey(dhPub[x])) = Len(GetPrime(dhP))
        /\ SecretFromPeerKey(x) => Len(dhSecret[x].out) = Len(GetPrime(dhP))

\* C7: every private key a that GeneratePrivateKey produces satisfies
\* 2 <= a <= p - 2.
C7_PrivateKeyRange ==
    \A x \in Parties : dhA[x] # NilInt => (2 <= dhA[x] /\ dhA[x] <= dhP - 2)

\* the IV is one the mode accepts: of the block size, or any IV for ECB
IVFits == mMode = "ECB" \/ Len(mIV) = BlockSize(mCipher)

\* the six modes and four padders of the round-trip property
RoundTripCase ==
    /\ mMode \in {"ECB", "CBC", "PCBC", "CFB", "OFB", "CTR"}
    /\ mPad \in PaddingNames
    /\ IVFits

\* C1 as stated: for every cipher, each of the six modes, each of the four
\* padders and every message, Unpad(Decrypt(Encrypt(Pad(msg)))) returns
\* exactly msg and no step returns an error.
C1_RoundTripEveryMessage ==
    RoundTripCase =>
        /\ mPc # "failed"
        /\ mPc = "done" => (mUnp.err = "" /\ mUnp.out = mMsg)

\* C1 amended: the same, where with ZEROS padding the message does not end
\* in a zero byte.
C1_RoundTrip ==
    (RoundTripCase /\ (mPad = "ZEROS" => (mMsg = <<>> \/ mMsg[Len(mMsg)] # 0))) =>
        /\ mPc # "failed"
        /\ mPc = "done" => (mUnp.err = "" /\ mUnp.out = mMsg)

\* C1 witness: RC6 in CBC mode with ISO 10126 padding carried a message of
\* two blocks and a byte
C1_Witness ==
    /\ mPc = "done"
    /\ mCipher.name = "RC6"
    /\ mMode = "CBC"
    /\ mPad = "ISO_10126"
    /\ Len(mMsg) = (2 * RC6BlockSize) + 1
    /\ Len(mEnc.out) = 3 * RC6BlockSize
    /\ mEnc.out # mPlain
    /\ mUnp.out = mMsg

\* C3: CFB, OFB and CTR on an unpadded plaintext of any length, with an IV
\* of the block size: Decrypt(Encrypt(P)) = P and neither call fails.
C3_StreamModesRoundTrip ==
    (mMode \in {"CFB", "OFB", "CTR"} /\ mPad = "NONE" /\ Len(mIV) = BlockSize(mCipher)) =>
        /\ mPc # "failed"
        /\ mPc = "encrypted" => Len(mEnc.out) = Len(mMsg)
        /\ mPc = "decrypted" => (mDec.err = "" /\ mDec.out = mMsg)

\* C3 witness: 17 bytes through RC6 in CTR mode, the last chunk partial
C3_Witness ==
    /\ mPc = "decrypted"
    /\ mCipher.name = "RC6"
    /\ mMode = "CTR"
    /\ mPad = "NONE"
    /\ Len(mMsg) = RC6BlockSize + 1
    /\ mEnc.out # mMsg
    /\ mDec.out = mMsg

\* C4: in RANDOM_DELTA mode Decrypt reproduces the deltas of Encrypt, so
\* Decrypt(Encrypt(P)) = P for a plaintext of any number of blocks.
C4_RandomDeltaRoundTrip ==
    (mMode = "RANDOM_DELTA" /\ mPc = "decrypted") => mDec.out = mMsg

\* the buffer handed to Unpad has a last byte that, read as a length, is
\* zero or greater than the buffer's length
BadLengthByte ==
    /\ padPadded # <<>>
    /\ (padPadded[Len(padPadded)] = 0 \/ padPadded[Len(padPadded)] > Len(padPadded))

\* C11 as stated: every padding scheme, ZEROS included, returns an error
\* from Unpad when the input is empty and when its last byte, read as a
\* length, is zero or greater than the length of the input.
C11_EverySchemeRejectsBadLength ==
    (padPc \in {"raw", "done"} /\ (padPadded = <<>> \/ BadLengthByte)) => padRes.err # ""

\* C11: every padding scheme returns an error from Unpad when the input is
\* empty; PKCS7, ANSI_X923 and ISO_10126 return an error when the last byte
\* of the input, read as a length, is zero or greater than the length of the
\* input (ZEROS carries no length byte and strips trailing zeros instead).
C11_UnpadRejects ==
    /\ (padPc \in {"raw", "done"} /\ padPadded = <<>>) =>
          (padRes.err # "" /\ padRes.out = <<>>)
    /\ (padPc \in {"raw", "done"} /\ padName # "ZEROS" /\ BadLengthByte) =>
          (padRes.err # "" /\ padRes.out = <<>>)

\* C11 witness: ISO 10126 Unpad refused a three-byte buffer ending in zero
C11_Witness ==
    /\ padPc = "raw"
    /\ padName = "ISO_10126"
    /\ Len(padPadded) = 3
    /\ padPadded[3] = 0
    /\ padRes.err = "invalid padding length"

\* mode.Encrypt has returned mEnc
EncryptReturned == mPc \in {"encrypted", "decrypted", "done"} \/ (mPc = "failed" /\ mDec = NoRes)

\* mode.Decrypt has returned mDec
DecryptReturned == mPc \in {"decrypted", "done", "received"} \/ (mPc = "failed" /\ mDec # NoRes)

\* C12: for every mode that requires an IV (CBC, PCBC, CFB, OFB, CTR,
\* RANDOM_DELTA), Encrypt and Decrypt return an error and no output whenever
\* len(iv) differs from the cipher's block size (the nil IV included), for
\* every input; the block cipher is not called.
C12_IVLengthChecked ==
    (mMode # "ECB" /\ Len(mIV) # BlockSize(mCipher)) =>
        /\ EncryptReturned => (mEnc.err = "IV length must be block size"
                                /\ mEnc.out = <<>> /\ mEnc.calls = 0)
        /\ DecryptReturned => (mDec.err = "IV length must be block size"
                                /\ mDec.out = <<>> /\ mDec.calls = 0)

\* C12 witness: CFB Decrypt refused a block-long buffer under a non-empty
\* IV of the wrong length
C12_Witness ==
    /\ mPc = "received"
    /\ mMode = "CFB"
    /\ mIV # <<>>
    /\ Len(mIV) # BlockSize(mCipher)
    /\ Len(mPlain) = BlockSize(mCipher)
    /\ mDec.err # ""

\* C13: for the block-aligned modes ECB, CBC and PCBC, Encrypt and Decrypt
\* return an error, without calling the block cipher on any block, whenever
\* the input length is not a multiple of the cipher's block size.
C13_BlockAlignedInput ==
    (mMode \in {"ECB", "CBC", "PCBC"} /\ (Len(mPlain) % BlockSize(mCipher)) # 0) =>
        /\ EncryptReturned => (mEnc.err # "" /\ mEnc.out = <<>> /\ mEnc.calls = 0)
        /\ mPc = "received" => (mDec.err # "" /\ mDec.out = <<>> /\ mDec.calls = 0)

\* C13 witness: PCBC Decrypt under a fitting IV refused a buffer of one
\* block and one byte
C13_Witness ==
    /\ mPc = "received"
    /\ mMode = "PCBC"
    /\ Len(mIV) = BlockSize(mCipher)
    /\ Len(mPlain) = BlockSize(mCipher) + 1
    /\ mDec.err = "ciphertext length must be multiple of block size"
    /\ mDec.calls = 0

\* C14 as stated: for every key, every IV of the block size and every
\* block-aligned plaintext with at least two identical blocks, the ECB
\* ciphertext and the CBC ciphertext are not identical.
C14_ECBDiffersFromCBC ==
    cmpPc = "both" => cmpECB.out # cmpCBC.out

\* every block of the ciphertext c before the last is the zero block
LeadingBlocksZero(c) ==
    \A k \in 1..(Len(c) - RC6BlockSize) : c[k] = 0

\* C14: for every key, every IV of the block size and every block-aligned
\* plaintext with at least two identical blocks, both encryptions succeed
\* and the ECB and CBC ciphertexts are identical only when the IV is all
\* zero and every ciphertext block before the last is all zero; for every
\* other IV and plaintext they differ.
C14_ECBDiffersUnlessZeroChain ==
    cmpPc = "both" =>
        /\ cmpECB.err = ""
        /\ cmpCBC.err = ""
        /\ Len(cmpECB.out) = Len(cmpPlain)
        /\ Len(cmpCBC.out) = Len(cmpPlain)
        /\ (cmpECB.out = cmpCBC.out) <=> (cmpIV = ZeroBlock /\ LeadingBlocksZero(cmpECB.out))

\* C14 witness: two identical text blocks under a text IV gave an ECB
\* ciphertext of two identical blocks and a CBC ciphertext that differs
C14_Witness ==
    /\ cmpPc = "both"
    /\ cmpIV = Ascii16
    /\ cmpPlain = Ascii16 \o Ascii16
    /\ SubSeq(cmpECB.out, 1, RC6BlockSize) = SubSeq(cmpECB.out, RC6BlockSize + 1, 2 * RC6BlockSize)
    /\ cmpECB.out # cmpCBC.out

\* C15: NewRC6(key) returns an error and no instance when len(key) < 16 or
\* len(key) > 32, and an instance with no error for every key length from
\* 16 to 32; the instance is usable: it holds the 44 round keys and its
\* block calls on 16-byte blocks succeed.
C15_RC6KeySize ==
    rc6Pc # "new" =>
        IF Len(rc6Key) < 16 \/ Len(rc6Key) > 32
        THEN /\ rc6Pc = "failed"
             /\ rc6Err = "RC6 key must be between 16 and 32 bytes"
             /\ rc6S = <<>>
        ELSE /\ rc6Err # "RC6 key must be between 16 and 32 bytes"
             /\ Len(rc6S) = RC6TableLen
             /\ rc6Pc = "failed" => Len(rc6In) # RC6BlockSize
             /\ (Len(rc6In) = RC6BlockSize /\ rc6Pc = "done") =>
                    (Len(rc6Mid) = RC6BlockSize /\ Len(rc6Out) = RC6BlockSize)

\* C15 witness: a 33-byte key was refused
C15_Witness ==
    /\ rc6Pc = "failed"
    /\ Len(rc6Key) = 33
    /\ rc6S = <<>>
    /\ rc6Err = "RC6 key must be between 16 and 32 bytes"

\* C16: a lookup by a name outside {RC6, LOKI97}, the seven mode names or the
\* four padding names fails with an error: no path returns without an error,
\* neither with a nil implementation nor with a default in place of the
\* unknown name.
C16_UnknownNameFails ==
    lkPc = "returned" =>
        /\ (lkRes.path = "GetMode" /\ lkMode \notin ModeNames) => lkRes.err # ""
        /\ (lkRes.path = "GetPadder" /\ lkPadding \notin PaddingNames) => lkRes.err # ""
        /\ (lkRes.path = "Encrypt" /\ lkAlg \notin AlgorithmNames) => lkRes.err # ""
        /\ (lkRes.path = "validateEncryptionConfig"
                /\ \/ lkMode \notin ModeNames \cup {""}
                   \/ lkPadding \notin PaddingNames \cup {""}) => lkRes.err # ""

\* C17: in every interleaving of concurrent first calls of GetGlobalDHParams,
\* those calls and every later call return the same (p, g): no two calls
\* ever return different pairs.
C17_OneAgreedPair ==
    \A x, y \in ggReturned : x = y

\* C17 witness: two callers both found no row, both generated and saved,
\* and a later call read the table; all of them have returned
C17_Witness ==
    /\ \E c, d \in Callers :
           /\ c # d
           /\ ggFirst[c] /\ ggFirst[d]
           /\ ggCalls[c] = 2 /\ ggCalls[d] >= 1
           /\ ggRet[c] # NoParams /\ ggRet[d] = ggRet[c]
    /\ Len(dhGlobals) >= 2

\* C18: the global parameter store is a single row: once any call of
\* GetGlobalDHParams has finished, in any interleaving, dh_globals holds
\* exactly one row.
C18_SingleRow ==
    (\E c \in Callers : ggCalls[c] > 0) => Len(dhGlobals) = 1

\* C19: after X's complete call for the chat has succeeded with value k, every
\* later InitiateDHExchange of the other participant returns k as the
\* counterparty's public value, until X completes with a different value.
C19_InitiateReturnsCompleted ==
    (lastInit.called /\ lastInit.err = "" /\ lastInit.peerDone # NilBytes) =>
        HexDecodeString(lastInit.other) = [err |-> "", out |-> lastInit.peerDone]

\* C20 as stated: the participant whose initiate call comes second receives
\* the other participant's public value in that call's result.
C20_SecondInitiateGetsValue ==
    (lastInit.called /\ lastInit.err = "" /\ lastInit.second) =>
        lastInit.other # Absent

\* C20: the participant whose initiate call comes second receives the value
\* stored for the other participant at that moment: it is in the result when
\* the other participant has completed before, or when CreateChat has run to
\* its end and the other participant has an account key; it is absent when the
\* other participant has neither completed nor an account key.
C20_SecondInitiateGetsStoredValue ==
    (lastInit.called /\ lastInit.err = "" /\ lastInit.second) =>
        /\ lastInit.other = IF lastInit.peerStored = NilBytes
                            THEN Absent
                            ELSE HexEncodeToString(lastInit.peerStored)
        /\ lastInit.peerDone # NilBytes => lastInit.other # Absent
        /\ (lastInit.created /\ userPublicKey[otherUserID(lastInit.user)] # NilBytes) =>
               lastInit.other # Absent
        /\ (lastInit.peerDone = NilBytes /\ userPublicKey[otherUserID(lastInit.user)] = NilBytes) =>
               lastInit.other = Absent

\* C20 witness: user 2 initiates after user 1 has initiated and completed with
\* 0a, and receives 0a
C20_Witness ==
    /\ lastInit.called /\ lastInit.err = "" /\ lastInit.second
    /\ lastInit.user = 2
    /\ lastInit.peerDone = <<10>>
    /\ lastInit.other = <<"0", "a">>
    /\ hasInitiated[1] /\ hasInitiated[2]

C22_PadderPure ==
    /\ alBuf = alBuf0
    /\ \A c \in AliasCallers :
           (alRes[c].called /\ alRes[c].err = "") => SliceBytes(c) = alFirst[c]

\* C23: ComputeSharedSecret on an instance whose private key has not been
\* generated returns an error and no secret, and leaves p, g, the private
\* key and the public key of the instance unchanged.
C23_SecretNeedsPrivateKey ==
    /\ [](\A x \in Parties :
             (dhSecret[x].called /\ dhSecret[x].own = NilInt) =>
                 /\ dhSecret[x].err = "private key not generated"
                 /\ dhSecret[x].out = <<>>)
    /\ [][\A x \in Parties :
             (~dhSecret[x].called /\ dhSecret'[x].called) =>
                 UNCHANGED <<dhP, dhG, dhA, dhPub>>]_vars

\* C23 witness: party A asked for the secret before generating its key,
\* was refused, and still has no key
C23_Witness ==
    /\ dhSecret["A"].called
    /\ dhSecret["A"].own = NilInt
    /\ dhSecret["A"].err = "private key not generated"
    /\ dhA["A"] = NilInt
    /\ dhPub["A"] = NilInt

\* C24: safe-prime generation is bounded: after finitely many failed
\* candidates it returns an error instead of retrying for ever, so every
\* call of NewDiffieHellman returns.
C24_GenerationTerminates == <>(pgPc \in {"returned", "failed"})

\* C25: for primeBits 1024 or 2048, NewDiffieHellman returns g = 2 and a
\* precomputed safe prime p whose bit length is exactly primeBits, that is
\* primeBits / 8 bytes (256 for 2048); a prime has no divisor from 2 on.
C25_PrecomputedSafePrime ==
    spPc = "done" =>
        /\ spG = 2
        /\ spFactor = 0
        /\ spLen = spBits
        /\ (spLen + 7) \div 8 = spBits \div 8

\* C26: only the creator of a chat can close it: a close request by the
\* other participant or by any other user is rejected, and the chat keeps
\* its status and its messages.
C26_OnlyCreatorCloses ==
    (chLast.op = "close" /\ chLast.chat = 1 /\ chLast.user # chCreator) =>
        /\ ~chLast.success
        /\ chStatus = chLast.statusBefore
        /\ chMessages = chLast.msgsBefore

\* C29: ProcessMessage stores and broadcasts a message only if its
\* authenticated sender is one of the two participants of the target chat: a
\* send request of any other user stores no row and notifies nobody.
C29_OnlyParticipantsSend ==
    (chLast.op = "send" /\ (GetChat(chLast.chat).nil
                             \/ (GetChat(chLast.chat).User1ID # chLast.user
                                 /\ GetChat(chLast.chat).User2ID # chLast.user))) =>
        /\ chMessages = chLast.msgsBefore
        /\ chLast.events = {}

\* C30: ProcessMessage for a chat id that does not exist returns a non-nil
\* error, so the send-message handler never reports success for a message
\* that was not saved.
C30_MissingChatIsAnError ==
    (chLast.op = "send" /\ chLast.http # 400 /\ GetChat(chLast.chat).nil) =>
        /\ chLast.err # ""
        /\ ~chLast.success
        /\ chLast.http # 200

\* C27: every event passed to Broadcast is eventually placed on the
\* broadcast queue and processed by runHub, and no event is dropped, also when
\* Broadcast is called faster than the hub drains the queue.
C27_NoEventDropped ==
    /\ [](hubDropped = {})
    /\ \A id \in 1..MaxEvents : (hubNext >= id) ~> (id \in hubProcessed)

\* C28: in every interleaving of registrations, broadcasts, evictions and
\* read-pump exits, each client's send channel is closed at most once and the
\* hub never sends on a send channel that has been closed.
C28_SendClosedOnce ==
    /\ \A c \in HubClients : hubClosed[c] <= 1
    /\ ~hubPanic
    /\ \A c \in hubClients : hubClosed[c] = 0

\* C28 witness: a client was evicted for a full buffer and its readPump left
\* as well, both requests were served, and its channel was closed once.
C28_Witness ==
    \E c \in HubClients :
        /\ hubPc[c] = "done"
        /\ hubEvict[c] = 0
        /\ hubClosed[c] = 1
        /\ Len(hubSend[c]) = SendCap
        /\ hubProcessed # {}
        /\ c \notin hubClients

\* C31: a chat whose status is closed has no stored messages: once CloseChat
\* has reported success no message row exists for the chat until it is
\* reopened, whatever ProcessMessage calls follow and even if the deletion
\* step failed.
C31_ClosedChatHasNoMessages ==
    chStatus = "closed" => chMessages = <<>>

\* C32: InitiateDHExchange and StoreDHPublicKey/CompleteDHExchange called by
\* a user who is not a participant of the chat, or for a chat that does not
\* exist, return ErrUserNotInChat or ErrChatNotFound, return no parameters
\* and no key, write no public key and broadcast nothing.
C32_OutsidersGetNothing ==
    /\ \A u \in ExchangeCallers \ ChatUsers : dhPublicKeys[u] = NilBytes
    /\ chatStatus = "none" => \A u \in ExchangeCallers : dhPublicKeys[u] = NilBytes
    /\ (lastInit.called /\ (lastInit.user \notin ChatUsers \/ chatStatus = "none")) =>
           /\ lastInit.err \in {"chat not found", "user not in chat"}
           /\ chatStatus = "none" => lastInit.err = "chat not found"
           /\ ~lastInit.params
           /\ lastInit.other = Absent
    /\ (lastComplete.called
          /\ (lastComplete.user \notin ChatUsers \/ chatStatus = "none")) =>
           /\ lastComplete.err \in {"chat not found", "user not in chat"}
           /\ chatStatus = "none" => lastComplete.err = "chat not found"
           /\ lastComplete.event = 0

\* C32 witness: user 3, who is not in the chat, has called both operations
\* on the active chat holding a key of user 1, and both were refused.
C32_Witness ==
    /\ chatStatus = "active"
    /\ dhPublicKeys[1] # NilBytes
    /\ lastInit.called /\ lastInit.user = 3 /\ lastInit.err = "user not in chat"
    /\ lastComplete.called /\ lastComplete.user = 3
    /\ lastComplete.err = "user not in chat"
    /\ lastComplete.hex = <<"0", "a">>
    /\ dhPublicKeys[3] = NilBytes

\* C33: the (p, g) pair returned by InitiateDHExchange for a chat is the same
\* for both participants and never changes during the chat's life, across
\* any sequence of create, close, re-create, initiate and complete calls:
\* every result carries the pair of the chat's row, and the row, once
\* written, keeps its pair.
C33_ChatPairStable ==
    /\ []((lastInit.called /\ lastInit.err = "") =>
             (lastInit.pg = chatParams /\ lastInit.pg \in ParamPairs))
    /\ [][chatParams # 0 => chatParams' = chatParams]_vars

\* C33 witness: the chat was created, closed and is being created again (the
\* second CreateChat is past its parameter step), both participants have
\* initiated, and the last result carries the pair of the row.
C33_Witness ==
    /\ ccCreated /\ ccPc = "check1"
    /\ hasInitiated[1] /\ hasInitiated[2]
    /\ lastInit.called /\ lastInit.err = "" /\ lastInit.user = 2
    /\ lastInit.pg = 1 /\ chatParams = 1

\* C34: in every sequence of add, accept, reject and remove requests a
\* contact relationship reaches status accepted only through an accept
\* issued, while the relationship is pending, by the user who did not send
\* the request; the requester can never accept their own request.
C34_AcceptedByReceiver ==
    /\ ctRow.status \in {"", "pending", "accepted"}
    /\ ctRow.status = "accepted" =>
           /\ ctAccept.user \in ContactUsers
           /\ ctAccept.user # ctRow.requester
           /\ ctAccept.saw = "pending"
    /\ \A u \in ContactUsers :
           (ctPc[u].action = "accept") => ctPc[u].contact.requester # u

\* C34 witness: user 2 sent the request, tried to accept it and was refused,
\* and user 1 accepted it.
C34_Witness ==
    /\ ctRow.status = "accepted"
    /\ ctRow.requester = 2
    /\ ctAccept = [user |-> 1, saw |-> "pending"]
    /\ ctLast[2] = [action |-> "accept", success |-> FALSE,
                    error |-> "You can only accept contact requests sent to you"]
    /\ ctRow.id > 1

RECURSIVE AddBigEndian(_, _)
\* the bytes of (counter + n) mod 2^(8 * Len(counter)), the counter read as a
\* big-endian integer
AddBigEndian(counter, n) ==
    IF counter = <<>> THEN <<>>
    ELSE Append(AddBigEndian(SubSeq(counter, 1, Len(counter) - 1),
                             (counter[Len(counter)] + n) \div 256),
                (counter[Len(counter)] + n) % 256)

\* input block i XOR E(IV + i), for every block i of the input
CTRBlocks(cipher, key, input, iv) ==
    LET bs == BlockSize(cipher)
        block(i) == XorBytes(Chunk(input, i * bs, bs),
                             CipherEncrypt(cipher, key, AddBigEndian(iv, i)).out,
                             Len(Chunk(input, i * bs, bs)))
        n == (Len(input) + bs - 1) \div bs
    IN  [i \in 0..(n - 1) |-> block(i)]

\* C35: in CTR mode output block i (from 0) is input block i XOR E(IV + i),
\* IV + i being computed on the counter as a big-endian integer of block-size
\* bytes modulo 2^(8 * block size): the carry moves from the last byte
\* towards the first and all-0xFF wraps to all zeros.
C35_CTRCounter ==
    (mMode = "CTR" /\ mPc \in {"encrypted", "decrypted", "done"}) =>
        LET bs == BlockSize(mCipher)
            blocks == CTRBlocks(mCipher, mKey, mPlain, mIV)
        IN  /\ mEnc.err = ""
            /\ Len(mEnc.out) = Len(mPlain)
            /\ \A i \in DOMAIN blocks : Chunk(mEnc.out, i * bs, bs) = blocks[i]

\* C35 witness: a message of more than two blocks was encrypted under the
\* all-0xFF counter, which wraps to zero after the first block.
C35_Witness ==
    /\ mMode = "CTR" /\ mPc = "encrypted"
    /\ mIV = [j \in 1..BlockSize(mCipher) |-> 255]
    /\ Len(mPlain) > 2 * BlockSize(mCipher)
    /\ mEnc.err = ""
    /\ AddBigEndian(mIV, 1) = [j \in 1..BlockSize(mCipher) |-> 0]

\* C36: PCBC with V_0 = IV: encryption computes C_i = E(P_i XOR V_(i-1)) and
\* V_i = P_i XOR C_i; decryption computes P_i = D(C_i) XOR V_(i-1) with the
\* same V_i = P_i XOR C_i, so the chaining value at every block is the same
\* on both sides.
C36_PCBCChaining ==
    (mMode = "PCBC" /\ mPc \in {"decrypted", "done"}) =>
        LET bs == BlockSize(mCipher)
            P(i) == Chunk(mPlain, (i - 1) * bs, bs)
            C(i) == Chunk(mEnc.out, (i - 1) * bs, bs)
            Q(i) == Chunk(mDec.out, (i - 1) * bs, bs)
            V(i) == IF i = 0 THEN mIV ELSE XorBytes(P(i), C(i), bs)
            W(i) == IF i = 0 THEN mIV ELSE XorBytes(Q(i), C(i), bs)
        IN  /\ Len(mEnc.out) = Len(mPlain)
            /\ Len(mDec.out) = Len(mPlain)
            /\ \A i \in 1..(Len(mPlain) \div bs) :
                   /\ C(i) = CipherEncrypt(mCipher, mKey, XorBytes(P(i), V(i - 1), bs)).out
                   /\ Q(i) = XorBytes(CipherDecrypt(mCipher, mKey, C(i)).out, W(i - 1), bs)
                   /\ W(i) = V(i)

\* C36 witness: a message of three blocks went through PCBC encryption and
\* decryption, and its third chaining value is not the ciphertext block alone.
C36_Witness ==
    /\ mMode = "PCBC" /\ mPc = "decrypted"
    /\ Len(mPlain) = 3 * BlockSize(mCipher)
    /\ mDec.out = mPlain
    /\ XorBytes(Chunk(mPlain, BlockSize(mCipher), BlockSize(mCipher)),
                Chunk(mEnc.out, BlockSize(mCipher), BlockSize(mCipher)),
                BlockSize(mCipher))
           # Chunk(mEnc.out, BlockSize(mCipher), BlockSize(mCipher))

\* C37: PKCS7 Unpad succeeds if and only if the input is not empty, its last
\* byte n satisfies 1 <= n <= Len(input) and each of the last n bytes equals
\* n; on success it returns the input without its last n bytes, otherwise it
\* returns an error.
C37_PKCS7UnpadExact ==
    (padName = "PKCS7" /\ padPc \in {"raw", "done"}) =>
        LET n == IF padPadded = <<>> THEN 0 ELSE padPadded[Len(padPadded)]
            valid == /\ padPadded # <<>>
                     /\ 1 <= n
                     /\ n <= Len(padPadded)
                     /\ \A i \in 1..Len(padPadded) :
                            i > Len(padPadded) - n => padPadded[i] = n
        IN  /\ (padRes.err = "") <=> valid
            /\ valid => padRes.out = SubSeq(padPadded, 1, Len(padPadded) - n)
            /\ ~valid => padRes.out = <<>>

\* C37 witness: PKCS7 Unpad was given the bytes 0 2 2 as received and
\* returned the byte 0; the buffer 2 1 2 is refused by the same rule.
C37_Witness ==
    /\ padName = "PKCS7" /\ padPc = "raw"
    /\ padPadded = <<0, 2, 2>>
    /\ padRes = [err |-> "", out |-> <<0>>]
    /\ PKCS7Unpad(<<2, 1, 2>>).err = "invalid padding"

\* C38: after wsService.disconnect() no new WebSocket connection is opened
\* unless connect() is called again: the close event that disconnect() causes
\* schedules no reconnect.
C38_DisconnectStaysDisconnected ==
    ~wsReopened

\* C40: the client's reconnecting is bounded: between two successful opens
\* it makes at most 10 automatic reconnect attempts, and the k-th of them
\* (k from 1) is scheduled 1000 * 2^(k-1) ms after the close that caused it.
C40_ReconnectBounded ==
    /\ wsSinceOpen <= MAX_RECONNECT_ATTEMPTS
    /\ wsSinceOpen >= 1 => wsLastDelay = RECONNECT_DELAY * Pow2(wsSinceOpen - 1)

\* C39: RC6 Encrypt(key, block) and Decrypt(key, block) transform the block
\* with the key given in the call: for every valid key k and instance c,
\* c.Encrypt(k, b) equals NewRC6(k).Encrypt(k, b), also when c was constructed
\* from a different key.
C39_CallKeyUsed ==
    (rc6Pc \in {"second", "done"} /\ Len(rc6CallKey) >= RC6MinKey
        /\ Len(rc6CallKey) <= RC6MaxKey) =>
        rc6Mid = IF rc6Dir = "ED"
                 THEN RC6Encrypt(expandKey(rc6CallKey), rc6CallKey, rc6In).out
                 ELSE RC6Decrypt(expandKey(rc6CallKey), rc6CallKey, rc6In).out

====
